---- MODULE Spec2Model ----
(***************************************************************************)
(* A model of plexus-core's two translators:                               *)
(*   - ASTCompiler (plexus_core/compiler.py): graph JSON -> Python source   *)
(*   - JSONDecompiler (plexus_core/decompiler.py): Python source -> graph   *)
(*                                                                         *)
(* Python dicts are records whose DOMAIN is the set of keys present, so    *)
(* "key in dict" is  key \in DOMAIN dict.  Python AST nodes are records    *)
(* with a field k naming the node class.  A Python exception is a record   *)
(* [type, msg]; NoError stands for "nothing was raised".                   *)
(***************************************************************************)
EXTENDS Integers, Sequences, FiniteSets, TLC

VARIABLES
    pc,                  \* position in the pipeline
    source,              \* the text handed to decompile: [ok, body]
    statement_nodes,     \* JSONDecompiler.statement_nodes
    expression_nodes,    \* JSONDecompiler.expression_nodes
    variable_providers,  \* JSONDecompiler.variable_providers
    expression_map,      \* JSONDecompiler.expression_map (keyed by AST identity)
    node_count,          \* JSONDecompiler._node_count
    di,                  \* number of statements of the module visited so far
    derr,                \* exception raised by decompile_python_to_json
    graph,               \* the graph handed to ASTCompiler
    node_map,            \* ASTCompiler.node_map
    expression_cache,    \* ASTCompiler.expression_cache
    compiled_statements, \* ASTCompiler.compiled_statements
    tree,                \* body of the ast.Module built by compile()
    ci,                  \* index of the next node of compile()'s second loop
    cerr,                \* exception raised by build_ast_from_json
    output               \* the text compile() returns, as a sequence of lines

vars == <<pc, source, statement_nodes, expression_nodes, variable_providers,
          expression_map, node_count, di, derr, graph, node_map, expression_cache,
          compiled_statements, tree, ci, cerr, output>>

----------------------------------------------------------------------------
(* Exceptions *)

NoError == [type |-> "None", msg |-> ""]

Raise(type, msg) == [type |-> type, msg |-> msg]

----------------------------------------------------------------------------
(* Python dicts *)

\* the truthiness of dict.get(key), for a list and for a string
TruthyList(d, key) == key \in DOMAIN d /\ d[key] # <<>>
TruthyStr(d, key) == key \in DOMAIN d /\ d[key] # ""

\* node.get(key, [])
GetList(d, key) == IF key \in DOMAIN d THEN d[key] ELSE <<>>

----------------------------------------------------------------------------
(* Operator tables *)

BINOP_MAP == [sym \in {"+", "-", "*", "/"} |->
                 CASE sym = "+" -> "Add" [] sym = "-" -> "Sub"
                   [] sym = "*" -> "Mult" [] sym = "/" -> "Div"]

CMPOP_MAP == [sym \in {"==", "!=", "<", "<=", ">", ">="} |->
                 CASE sym = "==" -> "Eq" [] sym = "!=" -> "NotEq"
                   [] sym = "<" -> "Lt" [] sym = "<=" -> "LtE"
                   [] sym = ">" -> "Gt" [] sym = ">=" -> "GtE"]

REVERSE_BINOP_MAP == [cls \in {"Add", "Sub", "Mult", "Div"} |->
                 CASE cls = "Add" -> "+" [] cls = "Sub" -> "-"
                   [] cls = "Mult" -> "*" [] cls = "Div" -> "/"]

REVERSE_CMPOP_MAP == [cls \in {"Eq", "NotEq", "Lt", "LtE", "Gt", "GtE"} |->
                 CASE cls = "Eq" -> "==" [] cls = "NotEq" -> "!="
                   [] cls = "Lt" -> "<" [] cls = "LtE" -> "<="
                   [] cls = "Gt" -> ">" [] cls = "GtE" -> ">="]

----------------------------------------------------------------------------
(* Python AST nodes.  Field names keep the names of the ast module; the    *)
(* value of an ast.Constant is held as its source token in field const.    *)

Constant(tok) == [k |-> "Constant", const |-> tok]
Name(id) == [k |-> "Name", id |-> id]
BinOp(left, op, right) == [k |-> "BinOp", left |-> left, op |-> op, right |-> right]
Compare(left, ops, comparators) ==
    [k |-> "Compare", left |-> left, ops |-> ops, comparators |-> comparators]
Call(func, args, keywords) ==
    [k |-> "Call", func |-> func, args |-> args, keywords |-> keywords]
Attribute(value, attr) == [k |-> "Attribute", value |-> value, attr |-> attr]
UnaryOp(op, operand) == [k |-> "UnaryOp", op |-> op, operand |-> operand]
List(elts) == [k |-> "List", elts |-> elts]
Tuple(elts) == [k |-> "Tuple", elts |-> elts]
Subscript(value, slice) == [k |-> "Subscript", value |-> value, slice |-> slice]
Keyword(arg, value) == [k |-> "keyword", arg |-> arg, value |-> value]

Assign(targets, value) == [k |-> "Assign", targets |-> targets, value |-> value]
Expr(value) == [k |-> "Expr", value |-> value]
If(test, body, orelse) == [k |-> "If", test |-> test, body |-> body, orelse |-> orelse]
For(target, iter, body, orelse) ==
    [k |-> "For", target |-> target, iter |-> iter, body |-> body, orelse |-> orelse]
Pass == [k |-> "Pass"]

----------------------------------------------------------------------------
(* ast.unparse: the text of an expression.  Precedence levels follow       *)
(* ast._Precedence: a sub-expression is parenthesised when its own level   *)
(* is below the level its parent asks for.                                 *)

OperatorSymbol(cls) ==
    CASE cls \in DOMAIN REVERSE_BINOP_MAP -> REVERSE_BINOP_MAP[cls]
      [] cls \in DOMAIN REVERSE_CMPOP_MAP -> REVERSE_CMPOP_MAP[cls]
      [] cls = "Mod" -> "%"
      [] cls = "In" -> "in"
      [] cls = "USub" -> "-"
      [] OTHER -> "?"

\* ast._Precedence, as far as the modelled expressions need it:
\* CMP = 1 < ARITH = 2 < TERM = 3 < FACTOR = 4 < ATOM = 6
Precedence(e) ==
    CASE e.k = "Compare" -> 1
      [] e.k = "BinOp" -> IF e.op \in {"Add", "Sub"} THEN 2 ELSE 3
      [] e.k = "UnaryOp" -> 4
      [] OTHER -> 6

RECURSIVE UnparseAt(_, _), UnparseList(_, _), UnparseCompareTail(_, _, _)

\* ", ".join of the texts of es[i..]
UnparseList(es, i) ==
    IF i > Len(es) THEN ""
    ELSE LET item == IF es[i].k = "keyword"
                     THEN es[i].arg \o "=" \o UnparseAt(es[i].value, 0)
                     ELSE UnparseAt(es[i], 0)
         IN  item \o (IF i < Len(es) THEN ", " ELSE "") \o UnparseList(es, i + 1)

UnparseCompareTail(ops, comparators, i) ==
    IF i > Len(ops) THEN ""
    ELSE " " \o OperatorSymbol(ops[i]) \o " "
         \o UnparseAt(comparators[i], 2)
         \o UnparseCompareTail(ops, comparators, i + 1)

UnparseAt(e, level) ==
    LET own == Precedence(e)
        text ==
          CASE e.k = "Constant" -> e.const
            [] e.k = "Name" -> e.id
            [] e.k = "BinOp" ->
                 UnparseAt(e.left, own) \o " " \o OperatorSymbol(e.op) \o " "
                 \o UnparseAt(e.right, own + 1)
            [] e.k = "Compare" ->
                 UnparseAt(e.left, 2)
                 \o UnparseCompareTail(e.ops, e.comparators, 1)
            [] e.k = "UnaryOp" -> OperatorSymbol(e.op) \o UnparseAt(e.operand, 4)
            [] e.k = "Call" ->
                 UnparseAt(e.func, 6) \o "("
                 \o UnparseList(e.args \o e.keywords, 1) \o ")"
            [] e.k = "Attribute" -> UnparseAt(e.value, 6) \o "." \o e.attr
            [] e.k = "Subscript" ->
                 UnparseAt(e.value, 6) \o "[" \o UnparseAt(e.slice, 0) \o "]"
            [] e.k = "List" -> "[" \o UnparseList(e.elts, 1) \o "]"
            [] e.k = "Tuple" ->
                 "(" \o UnparseList(e.elts, 1)
                 \o (IF Len(e.elts) = 1 THEN "," ELSE "") \o ")"
            [] OTHER -> "?"
    IN  IF own < level THEN "(" \o text \o ")" ELSE text

unparse(e) == UnparseAt(e, 0)

(* ast.unparse of a statement list: one string per line, four spaces per   *)
(* block level; an orelse holding a single If is written as elif.          *)

RECURSIVE UnparseBody(_, _, _), UnparseStmt(_, _), UnparseOrelse(_, _)

UnparseOrelse(orelse, indent) ==
    IF orelse = <<>> THEN <<>>
    ELSE IF Len(orelse) = 1 /\ orelse[1].k = "If"
    THEN <<indent \o "elif " \o unparse(orelse[1].test) \o ":">>
         \o UnparseBody(orelse[1].body, 1, indent \o "    ")
         \o UnparseOrelse(orelse[1].orelse, indent)
    ELSE <<indent \o "else:">> \o UnparseBody(orelse, 1, indent \o "    ")

UnparseStmt(s, indent) ==
    CASE s.k = "Assign" ->
           <<indent \o unparse(s.targets[1]) \o " = " \o unparse(s.value)>>
      [] s.k = "Expr" -> <<indent \o unparse(s.value)>>
      [] s.k = "If" ->
           <<indent \o "if " \o unparse(s.test) \o ":">>
           \o UnparseBody(s.body, 1, indent \o "    ")
           \o UnparseOrelse(s.orelse, indent)
      [] s.k = "For" ->
           <<indent \o "for " \o unparse(s.target) \o " in " \o unparse(s.iter) \o ":">>
           \o UnparseBody(s.body, 1, indent \o "    ")
      [] s.k = "Pass" -> <<indent \o "pass">>
      [] OTHER -> <<indent \o "?">>

UnparseBody(stmts, i, indent) ==
    IF i > Len(stmts) THEN <<>>
    ELSE UnparseStmt(stmts[i], indent) \o UnparseBody(stmts, i + 1, indent)

unparse_module(body) == UnparseBody(body, 1, "")

(* repr() of the value of an ast.Constant.  It is the constant's source    *)
(* token for numbers, strings, True/False/None; the Ellipsis constant is   *)
(* written ... and its repr is the name Ellipsis.                          *)

repr(tok) == IF tok = "..." THEN "Ellipsis" ELSE tok

----------------------------------------------------------------------------
(* Inputs: the programs handed to decompile                                *)

MaxStmts == 3

One == Constant("1")
X == Name("x")
Y == Name("y")

CallPrint(e) == Expr(Call(Name("print"), <<e>>, <<>>))
CallF(args, keywords) == Call(Name("f"), args, keywords)
Method(keywords) == Call(Attribute(X, "m"), <<>>, keywords)
KwEnd == <<Keyword("end", One)>>

\* expressions of the supported subset
SupportedExprs ==
    {One, Constant("'B'"), X, Y, List(<<One>>)}
    \cup {BinOp(a, op, b) : a \in {One, X}, op \in {"Add", "Mult"}, b \in {One, Y}}
    \cup {Compare(a, <<op>>, <<One>>) : a \in {One, X}, op \in {"GtE", "NotEq"}}
    \cup {CallF(args, <<>>) : args \in {<<>>, <<X>>, <<One, X>>, <<CallF(<<X>>, <<>>)>>}}
    \cup {BinOp(CallF(<<X>>, <<>>), "Add", One),
          BinOp(BinOp(X, "Add", One), "Mult", One),
          Compare(BinOp(X, "Sub", One), <<"Lt">>, <<Y>>)}

\* expressions outside the subset: constants whose repr is not their token,
\* collections that read a name, operators outside the tables, chained
\* comparisons, unary minus, method calls, keyword arguments
OtherExprs ==
    {Constant("..."), List(<<X>>), Tuple(<<One, Y>>),
     BinOp(X, "Mod", One), BinOp(CallF(<<X>>, <<>>), "Mod", One),
     Compare(X, <<"Lt", "Lt">>, <<One, One>>), Compare(X, <<"In">>, <<List(<<One>>)>>),
     UnaryOp("USub", One), UnaryOp("USub", X),
     Method(<<>>), Method(KwEnd),
     CallF(<<>>, KwEnd), CallF(<<One>>, KwEnd), CallF(<<CallF(<<>>, KwEnd)>>, <<>>),
     BinOp(CallF(<<>>, KwEnd), "Add", One), List(<<CallF(<<>>, KwEnd)>>),
     Call(Attribute(X, "m"), <<CallF(<<>>, KwEnd)>>, <<>>)}

ExprPool == SupportedExprs \cup OtherExprs

\* one statement built around the expression e, at each place an
\* expression can stand
FocusStmts(e) ==
    {Assign(<<Y>>, e), Assign(<<X>>, e), CallPrint(e), Expr(e),
     If(e, <<CallPrint(One)>>, <<>>), If(e, <<CallPrint(One)>>, <<CallPrint(X)>>),
     For(Y, e, <<CallPrint(Y)>>, <<>>)}

\* assignments and loops the decompiler does not support
UnsupportedStmts ==
    {Assign(<<X, Y>>, One), Assign(<<Y, X>>, X),
     Assign(<<Tuple(<<X, Y>>)>>, Tuple(<<One, One>>)),
     Assign(<<Attribute(X, "a")>>, One), Assign(<<Subscript(X, One)>>, One),
     Assign(<<Tuple(<<X, Y>>)>>, CallF(<<>>, KwEnd)),
     Assign(<<X, Tuple(<<X, Y>>)>>, One),
     For(Y, X, <<CallPrint(Y)>>, <<CallPrint(One)>>),
     For(Tuple(<<X, Y>>), X, <<CallPrint(Y)>>, <<>>),
     Expr(Call(Name("print"), <<Constant("'a'")>>, KwEnd))}

FocusPrograms ==
    {prefix \o <<s>> \o suffix :
        prefix \in {<<>>, <<Assign(<<X>>, One)>>},
        s \in UNION {FocusStmts(e) : e \in ExprPool} \cup UnsupportedStmts,
        suffix \in {<<>>, <<CallPrint(X)>>}}

\* statements of the supported subset that bind and read x and y
CoreStmts ==
    {Assign(<<X>>, One), Assign(<<Y>>, X), Assign(<<X>>, BinOp(X, "Add", One)),
     CallPrint(X), CallPrint(Y),
     If(Compare(X, <<"GtE">>, <<One>>), <<Assign(<<X>>, Constant("'B'"))>>,
        <<CallPrint(X)>>),
     If(Compare(X, <<"GtE">>, <<One>>), <<CallPrint(Constant("'B'"))>>,
        <<CallPrint(Constant("'C'"))>>),
     If(Constant("True"), <<Pass>>, <<>>),
     If(X, <<Assign(<<Y>>, X)>>, <<>>),
     For(Y, X, <<CallPrint(Y)>>, <<>>),
     For(X, List(<<One>>), <<Assign(<<X>>, BinOp(X, "Add", One)), CallPrint(X)>>, <<>>),
     For(X, List(<<One>>), <<For(X, X, <<CallPrint(X)>>, <<>>)>>, <<>>),
     For(Y, List(<<One>>), <<Assign(<<X>>, Y)>>, <<>>),
     For(Y, List(<<One>>), <<CallPrint(BinOp(Y, "Add", One))>>, <<>>)}

RECURSIVE SeqsUpTo(_, _)
\* the sequences of at most n elements of S
SeqsUpTo(S, n) ==
    IF n = 0 THEN {<<>>}
    ELSE LET shorter == SeqsUpTo(S, n - 1) IN
         shorter \cup {Append(q, x) : q \in shorter, x \in S}

CorePrograms == SeqsUpTo(CoreStmts, MaxStmts)

\* the constants 0, 1, ..., n - 1 as the n arguments of a call
Numbers(n) == [i \in 1..n |-> Constant(ToString(i - 1))]

\* calls with few and with more than ten positional arguments
LongCallPrograms ==
    {<<Expr(CallF(Numbers(n), <<>>))>> : n \in {2, 10, 11}}
    \cup {<<Assign(<<X>>, CallF(Numbers(11), <<>>))>>}

\* [ok |-> FALSE] is a text that ast.parse rejects
Sources ==
    {[ok |-> TRUE, body |-> b] :
        b \in CorePrograms \cup FocusPrograms \cup LongCallPrograms}
    \cup {[ok |-> FALSE, body |-> <<>>]}

NoSource == [ok |-> TRUE, body |-> <<>>]

----------------------------------------------------------------------------
(* Inputs: the graphs handed to the compiler                               *)

MaxNodes == 3

Lit(name, text) == [name |-> name, value |-> text]
Link(name, id) == [name |-> name, link |-> id]

VarAssign(id, var, inputs) ==
    [id |-> id, type |-> "variable_assign", value |-> var, inputs |-> inputs]
BinaryOp(id, op, inputs) ==
    [id |-> id, type |-> "binary_op", value |-> op, inputs |-> inputs]
CallFunction(id, func_name, inputs) ==
    [id |-> id, type |-> "call_function", func_name |-> func_name, inputs |-> inputs]
PrintNode(id, inputs) == [id |-> id, type |-> "print", inputs |-> inputs]
IfStatement(id, inputs, body, orelse) ==
    [id |-> id, type |-> "if_statement", inputs |-> inputs, body |-> body,
     orelse |-> orelse]
ForLoop(id, target_variable, inputs, body) ==
    [id |-> id, type |-> "for_loop", target_variable |-> target_variable,
     inputs |-> inputs, body |-> body]

IdAt(i) == "n" \o ToString(i)

\* the nodes that may stand at position i of a graph; links name the first
\* two positions, so a node may link to itself, backwards or forwards
CoreNodes(i) ==
    LET id == IdAt(i) IN
    {VarAssign(id, "x", <<Lit("value", "1")>>),
     VarAssign(id, "y", <<Link("value", "n1")>>),
     BinaryOp(id, ">=", <<Link("left", "n1"), Lit("right", "1")>>),
     BinaryOp(id, "+", <<Link("left", "n2"), Lit("right", "1")>>),
     CallFunction(id, "print", <<Link("arg0", "n1")>>),
     CallFunction(id, "print", <<Link("arg0", "n2")>>),
     CallFunction(id, "print", <<Lit("arg0", "'B'")>>),
     PrintNode(id, <<Link("target", "n1")>>),
     PrintNode(id, <<Lit("target", "'B'")>>),
     IfStatement(id, <<Link("test", "n2")>>,
                 <<CallFunction(id \o "b", "print", <<Lit("arg0", "'B'")>>)>>,
                 <<PrintNode(id \o "e", <<Lit("target", "'C'")>>)>>),
     IfStatement(id, <<Lit("test", "True")>>, <<>>, <<>>),
     [id |-> id, type |-> "if_statement", inputs |-> <<Link("test", "n1")>>],
     ForLoop(id, "i", <<Link("iter", "n1")>>,
             <<CallFunction(id \o "b", "print", <<Link("arg0", id)>>)>>),
     ForLoop(id, "i", <<Lit("iter", "[1]")>>,
             <<VarAssign(id \o "b", "x", <<Link("value", id)>>)>>),
     ForLoop(id, "i", <<Lit("iter", "[1]")>>, <<>>),
     [id |-> id, type |-> "for_loop", target_variable |-> "i",
      inputs |-> <<Link("iter", "n1")>>]}

RECURSIVE CoreGraphNodes(_)
\* the node lists of length n with a node of CoreNodes(i) at each position i
CoreGraphNodes(n) ==
    IF n = 0 THEN {<<>>}
    ELSE {Append(q, x) : q \in CoreGraphNodes(n - 1), x \in CoreNodes(n)}

\* well-formed graphs: those of the repository's compiler tests, a loop,
\* an if whose branches assign and read, an if whose body links to a
\* top-level call, an operator that nothing links to, and a loop with two
\* statements in its body
Skeletons ==
    {<<VarAssign("n1", "x", <<Lit("value", "1")>>),
       CallFunction("n2", "print", <<Link("arg0", "n1")>>)>>,
     <<BinaryOp("n1", "+", <<Lit("left", "1"), Lit("right", "1")>>),
       VarAssign("n2", "x", <<Link("value", "n1")>>)>>,
     <<VarAssign("n1", "x", <<Lit("value", "1")>>),
       BinaryOp("n2", ">=", <<Link("left", "n1"), Lit("right", "1")>>),
       IfStatement("n3", <<Link("test", "n2")>>,
                   <<CallFunction("n3b", "print", <<Lit("arg0", "'B'")>>)>>,
                   <<CallFunction("n3e", "print", <<Lit("arg0", "'C'")>>)>>)>>,
     <<VarAssign("n1", "x", <<Lit("value", "[1]")>>),
       ForLoop("n2", "i", <<Link("iter", "n1")>>,
               <<CallFunction("n2b", "print", <<Link("arg0", "n2")>>)>>)>>,
     <<IfStatement("n1", <<Lit("test", "True")>>,
                   <<VarAssign("n1b", "x", <<Lit("value", "1")>>)>>,
                   <<IfStatement("n1e", <<Lit("test", "True")>>,
                                 <<CallFunction("n1f", "print", <<Lit("arg0", "1")>>)>>,
                                 <<>>)>>),
       CallFunction("n2", "print", <<Lit("arg0", "1")>>)>>,
     <<IfStatement("n1", <<Lit("test", "True")>>,
                   <<VarAssign("n1b", "y", <<Link("value", "n2")>>)>>, <<>>),
       CallFunction("n2", "f", <<Lit("arg0", "1")>>)>>,
     <<BinaryOp("n1", "*", <<Lit("left", "1"), Lit("right", "1")>>),
       CallFunction("n2", "print", <<Lit("arg0", "1")>>)>>,
     <<CallFunction("n1", "print", <<Lit("arg0", "'B'")>>),
       ForLoop("n2", "i", <<Lit("iter", "[1]")>>,
               <<VarAssign("n2b", "y", <<Link("value", "n2")>>),
                 CallFunction("n2c", "print", <<Link("arg0", "n2b")>>)>>)>>}

Without(node, key) == [f \in DOMAIN node \ {key} |-> node[f]]

\* node with its first input replaced by the input `new` of the same name
WithFirstInput(node, new) ==
    IF GetList(node, "inputs") = <<>> THEN node
    ELSE [node EXCEPT !.inputs = <<new @@ [name |-> node.inputs[1].name]>>
                                 \o SubSeq(node.inputs, 2, Len(node.inputs))]

Defects == {"no_id", "no_type", "no_inputs", "dangling_link", "self_link",
            "call_text", "attribute_text", "name_text", "bad_text",
            "print_type", "other_type", "other_operator", "same_id"}

\* node with one defect
Defect(node, d) ==
    CASE d = "no_id" -> Without(node, "id")
      [] d = "no_type" -> Without(node, "type")
      [] d = "no_inputs" -> Without(node, "inputs")
      [] d = "dangling_link" -> WithFirstInput(node, [link |-> "n9"])
      [] d = "self_link" -> WithFirstInput(node, [link |-> node.id])
      [] d = "call_text" -> WithFirstInput(node, [value |-> "f()"])
      [] d = "attribute_text" -> WithFirstInput(node, [value |-> "os.sep"])
      [] d = "name_text" -> WithFirstInput(node, [value |-> "y"])
      [] d = "bad_text" -> WithFirstInput(node, [value |-> "1 +"])
      [] d = "print_type" ->
           IF GetList(node, "inputs") = <<>> THEN [node EXCEPT !.type = "print"]
           ELSE [node EXCEPT !.type = "print",
                             !.inputs = <<[@[1] EXCEPT !.name = "target"]>>]
      [] d = "other_type" -> [node EXCEPT !.type = "while_loop"]
      [] d = "other_operator" ->
           IF node.type = "binary_op" THEN [node EXCEPT !.value = "%"] ELSE node
      [] d = "same_id" -> [node EXCEPT !.id = "n1"]

\* where a defect is put: the node at position p itself, or the first
\* node of its body or of its orelse
Places == {"node", "body", "orelse"}

HasPlace(node, place) ==
    place = "node" \/ (place \in DOMAIN node /\ node[place] # <<>>)

DefectAt(nodes, p, place, d) ==
    [nodes EXCEPT ![p] =
        IF place = "node" THEN Defect(@, d)
        ELSE [@ EXCEPT ![place] =
                <<Defect(@[1], d)>> \o SubSeq(@, 2, Len(@))]]

DefectGraphNodes ==
    {DefectAt(nodes, p, place, d) :
        <<nodes, p, place, d>> \in
            {q \in Skeletons \X (1..MaxNodes) \X Places \X Defects :
                q[2] <= Len(q[1]) /\ HasPlace(q[1][q[2]], q[3])}}

\* a node that repeats the id n1, with a defect inside its body or orelse
ShadowedGraphNodes ==
    {DefectAt(DefectAt(nodes, p, "node", "same_id"), p, place, d) :
        <<nodes, p, place, d>> \in
            {q \in Skeletons \X (2..MaxNodes) \X (Places \ {"node"}) \X Defects :
                q[2] <= Len(q[1]) /\ HasPlace(q[1][q[2]], q[3])}}

\* a graph without a `nodes` list is the only one __init__ itself rejects
Graphs ==
    {[nodes |-> ns] :
        ns \in UNION {CoreGraphNodes(n) : n \in 0..MaxNodes}
               \cup Skeletons \cup DefectGraphNodes \cup ShadowedGraphNodes}
    \cup {[connections |-> <<>>]}

NoGraph == [nodes |-> <<>>, connections |-> <<>>]

----------------------------------------------------------------------------
(* ast.parse(text, mode='eval').body, as a table from the texts the model  *)
(* uses to the expression each one denotes.  ParseUniverse is defined with *)
(* the inputs below; a text that no expression of it unparses to is a      *)
(* SyntaxError.                                                            *)

NoAst == [k |-> "None"]

ParseTableOf(universe) ==
    [t \in {unparse(e) : e \in universe} |->
        CHOOSE e \in universe : unparse(e) = t]

\* the expressions whose text the model parses
ParseUniverse ==
    ExprPool \cup {Constant(c) : c \in {"'C'", "'a'", "True"}}
    \cup {Numbers(11)[i] : i \in 1..11}
    \cup {Name("Ellipsis"), Attribute(Name("os"), "sep")}

ParseTable == ParseTableOf(ParseUniverse)

----------------------------------------------------------------------------
(* ASTCompiler *)

MissingId ==
    Raise("ValueError", "A node in the graph is missing a required 'id' field.")

RECURSIVE discover_nodes(_, _, _)

\* _discover_nodes(node_list[i..]) on the map nm; the result is [nm, err]
discover_nodes(node_list, i, nm) ==
    IF i > Len(node_list) THEN [nm |-> nm, err |-> NoError]
    ELSE LET node == node_list[i] IN
         IF "id" \notin DOMAIN node THEN [nm |-> nm, err |-> MissingId]
         ELSE IF node.id \in DOMAIN nm THEN discover_nodes(node_list, i + 1, nm)
         ELSE LET nm1 == (node.id :> node) @@ nm
                  r1 == IF TruthyList(node, "body")
                        THEN discover_nodes(node.body, 1, nm1)
                        ELSE [nm |-> nm1, err |-> NoError]
                  r2 == IF r1.err = NoError /\ TruthyList(node, "orelse")
                        THEN discover_nodes(node.orelse, 1, r1.nm)
                        ELSE r1
              IN  IF r2.err # NoError THEN r2
                  ELSE discover_nodes(node_list, i + 1, r2.nm)

\* the closure get_input of _build_expression and _build_statement:
\* the first input whose name is `name`, as [found, input]
RECURSIVE FindInput(_, _, _)
FindInput(inputs, i, name) ==
    IF i > Len(inputs) THEN [found |-> FALSE, input |-> [name |-> name]]
    ELSE IF "name" \in DOMAIN inputs[i] /\ inputs[i].name = name
         THEN [found |-> TRUE, input |-> inputs[i]]
         ELSE FindInput(inputs, i + 1, name)

get_input(node, name) == FindInput(GetList(node, "inputs"), 1, name)

MissingInput(node, name) ==
    Raise("ValueError",
          "Node '" \o node.id \o "' of type '" \o node.type
          \o "' is missing required input: '" \o name \o "'")

MissingType(node) ==
    Raise("ValueError", "Node '" \o node.id \o "' is missing a 'type' field.")

LinkNotFound(link_id) ==
    Raise("ValueError", "Node link '" \o link_id \o "' not found in graph.")

KeyError(key) == Raise("KeyError", key)

\* Python's order on the input names the model uses (str comparison,
\* character by character: "arg10" sorts before "arg2")
SlotOrder == <<"arg0", "arg1", "arg10", "arg2", "arg3", "arg4", "arg5", "arg6",
               "arg7", "arg8", "arg9", "iter", "left", "right", "target",
               "test", "value">>

SlotRank(name) == CHOOSE r \in 1..Len(SlotOrder) : SlotOrder[r] = name

\* sorted(inputs, key=lambda i: i['name']): a stable insertion sort
RECURSIVE InsertSorted(_, _), SortedByName(_, _)
InsertSorted(sorted, x) ==
    IF sorted = <<>> THEN <<x>>
    ELSE LET last == sorted[Len(sorted)] IN
         IF SlotRank(last.name) <= SlotRank(x.name) THEN Append(sorted, x)
         ELSE Append(InsertSorted(SubSeq(sorted, 1, Len(sorted) - 1), x), last)

SortedByName(inputs, i) ==
    IF i = 0 THEN <<>>
    ELSE InsertSorted(SortedByName(inputs, i - 1), inputs[i])

RecursionLimit == 8

RecursionError == Raise("RecursionError", "maximum recursion depth exceeded")

(* Every method below runs in a compiler state st = [cache, compiled, err] *)
(* and yields R(st, val): the state it leaves and the value it returns.    *)
(* Bind(r, K) is sequencing: when r raised, the exception propagates, and  *)
(* otherwise the rest of the method, K, runs on r.                         *)

R(st, val) == [st |-> st, val |-> val]

Fail(st, e) == R([st EXCEPT !.err = e], NoAst)

Bind(r, K(_)) == IF r.st.err # NoError THEN R(r.st, NoAst) ELSE K(r)

Cached(st, id, ast) == [st EXCEPT !.cache = (id :> ast) @@ @]

RECURSIVE get_input_as_ast(_, _, _, _), build_expression(_, _, _, _),
          BuildArgs(_, _, _, _, _)

\* _get_input_as_ast(input_data); val is the expression returned
get_input_as_ast(nm, input_data, st, depth) ==
    IF depth > RecursionLimit THEN Fail(st, RecursionError)
    ELSE IF "link" \in DOMAIN input_data
    THEN LET link_id == input_data.link IN
         IF link_id \notin DOMAIN nm THEN Fail(st, LinkNotFound(link_id))
         ELSE LET linked_node == nm[link_id] IN
              IF "type" \in DOMAIN linked_node /\ linked_node.type = "for_loop"
              THEN IF "target_variable" \in DOMAIN linked_node
                   THEN R(st, Name(linked_node.target_variable))
                   ELSE Fail(st, KeyError("target_variable"))
              ELSE Bind(IF link_id \notin DOMAIN st.cache
                        THEN build_expression(nm, linked_node, st, depth + 1)
                        ELSE R(st, NoAst),
                        LAMBDA r : IF link_id \notin DOMAIN r.st.cache
                                   THEN Fail(r.st, KeyError(link_id))
                                   ELSE R(r.st, r.st.cache[link_id]))
    ELSE IF "value" \in DOMAIN input_data
    THEN IF input_data.value \in DOMAIN ParseTable
         THEN R(st, ParseTable[input_data.value])
         ELSE Fail(st, Raise("ValueError",
                             "Could not parse literal value: " \o input_data.value))
    ELSE Fail(st, Raise("ValueError",
                "Input dictionary is malformed. Must contain 'link' or 'value'."))

\* self._get_input_as_ast(get_input(name)) for the inputs of node
InputAst(nm, node, name, st, depth) ==
    LET i == get_input(node, name) IN
    IF i.found THEN get_input_as_ast(nm, i.input, st, depth)
    ELSE Fail(st, MissingInput(node, name))

\* x followed by the list that rest returns
Cons(x, rest) ==
    IF rest.st.err # NoError THEN rest ELSE R(rest.st, <<x>> \o rest.val)

\* [self._get_input_as_ast(arg) for arg in args[i..]]; val is the list
BuildArgs(nm, args, i, st, depth) ==
    IF i > Len(args) THEN R(st, <<>>)
    ELSE Bind(get_input_as_ast(nm, args[i], st, depth),
              LAMBDA r : Cons(r.val, BuildArgs(nm, args, i + 1, r.st, depth)))

\* _build_expression(node); it returns None (val = NoAst)
build_expression(nm, node, st, depth) ==
    IF depth > RecursionLimit THEN Fail(st, RecursionError)
    ELSE IF node.id \in DOMAIN st.cache THEN R(st, NoAst)
    ELSE IF ~TruthyStr(node, "type") THEN Fail(st, MissingType(node))
    ELSE IF node.type = "variable_assign"
    THEN IF "value" \notin DOMAIN node THEN Fail(st, KeyError("value"))
         ELSE R(Cached(st, node.id, Name(node.value)), NoAst)
    ELSE IF node.type = "binary_op"
    THEN IF "value" \notin DOMAIN node THEN Fail(st, KeyError("value"))
         ELSE LET op_str == node.value IN
              Bind(InputAst(nm, node, "left", st, depth + 1), LAMBDA left :
              Bind(InputAst(nm, node, "right", left.st, depth + 1), LAMBDA right :
                IF op_str \in DOMAIN BINOP_MAP
                THEN R(Cached(right.st, node.id,
                              BinOp(left.val, BINOP_MAP[op_str], right.val)), NoAst)
                ELSE IF op_str \in DOMAIN CMPOP_MAP
                THEN R(Cached(right.st, node.id,
                              Compare(left.val, <<CMPOP_MAP[op_str]>>, <<right.val>>)),
                       NoAst)
                ELSE R(right.st, NoAst)))
    ELSE IF node.type = "call_function"
    THEN IF "func_name" \notin DOMAIN node THEN Fail(st, KeyError("func_name"))
         ELSE LET inputs == GetList(node, "inputs") IN
              IF \E j \in 1..Len(inputs) : "name" \notin DOMAIN inputs[j]
              THEN Fail(st, KeyError("name"))
              ELSE Bind(BuildArgs(nm, SortedByName(inputs, Len(inputs)), 1, st,
                                  depth + 1),
                        LAMBDA args :
                          R(Cached(args.st, node.id,
                                   Call(Name(node.func_name), args.val, <<>>)), NoAst))
    ELSE R(st, NoAst)

RECURSIVE build_statement(_, _, _), BuildBody(_, _, _, _)

\* stmt, unless it is None, put behind the list that rest returns
SnocStmt(stmt, rest) ==
    IF rest.st.err # NoError \/ stmt = NoAst THEN rest
    ELSE R(rest.st, rest.val \o <<stmt>>)

\* stmt, unless it is None, followed by the list that rest returns
ConsStmt(stmt, rest) ==
    IF rest.st.err # NoError \/ stmt = NoAst THEN rest
    ELSE R(rest.st, <<stmt>> \o rest.val)

\* [stmt for n in nodes[i..] if (stmt := self._build_statement(n)) is not None]
BuildBody(nm, nodes, i, st) ==
    IF i > Len(nodes) THEN R(st, <<>>)
    ELSE Bind(build_statement(nm, nodes[i], st),
              LAMBDA r : ConsStmt(r.val, BuildBody(nm, nodes, i + 1, r.st)))

\* lines 144-146: the statement built for node is recorded and returned
Compiled(node, st, statement) ==
    R([st EXCEPT !.compiled = @ \cup {node.id}], statement)

\* the list of statements as the comprehension built it
AsBuilt(body) == body

\* if not body: body = [ast.Pass()]
OrPass(body) == IF body = <<>> THEN <<Pass>> ELSE body

\* _build_statement(node); val is the statement, NoAst when it returns None
build_statement(nm, node, st) ==
    IF "id" \notin DOMAIN node THEN Fail(st, KeyError("id"))
    ELSE IF node.id \in st.compiled THEN R(st, NoAst)
    ELSE IF ~TruthyStr(node, "type") THEN Fail(st, MissingType(node))
    ELSE IF node.type = "variable_assign"
    THEN Bind(build_expression(nm, node, st, 0), LAMBDA e :
         IF "value" \notin DOMAIN node THEN Fail(e.st, KeyError("value"))
         ELSE Bind(InputAst(nm, node, "value", e.st, 0), LAMBDA value :
              Compiled(node, value.st, Assign(<<Name(node.value)>>, value.val))))
    ELSE IF node.type = "call_function"
    THEN Bind(build_expression(nm, node, st, 0), LAMBDA e :
              Compiled(node, e.st, Expr(e.st.cache[node.id])))
    ELSE IF node.type = "if_statement"
    THEN Bind(InputAst(nm, node, "test", st, 0), LAMBDA test :
         Bind(BuildBody(nm, GetList(node, "body"), 1, test.st), LAMBDA body :
         Bind(BuildBody(nm, GetList(node, "orelse"), 1, body.st), LAMBDA orelse :
              Compiled(node, orelse.st,
                       If(test.val, OrPass(body.val), orelse.val)))))
    ELSE IF node.type = "for_loop"
    THEN IF "target_variable" \notin DOMAIN node
         THEN Fail(st, KeyError("target_variable"))
         ELSE Bind(InputAst(nm, node, "iter", st, 0), LAMBDA iter :
              Bind(BuildBody(nm, GetList(node, "body"), 1, iter.st), LAMBDA body :
                   Compiled(node, body.st,
                            For(Name(node.target_variable), iter.val,
                                OrPass(body.val), <<>>))))
    ELSE R(st, NoAst)

\* the ids that the inputs of one node link to
LinksOf(node) ==
    LET inputs == GetList(node, "inputs") IN
    {inputs[j].link : j \in {j \in 1..Len(inputs) : "link" \in DOMAIN inputs[j]}}

\* the set linked_ids that compile() collects in its first loop
linked_ids(g) == UNION {LinksOf(g.nodes[n]) : n \in 1..Len(g.nodes)}

----------------------------------------------------------------------------
(* JSONDecompiler.  The state of one decompiler object is a record         *)
(* ds = [statement_nodes, expression_nodes, variable_providers,            *)
(* expression_map, node_count, err].  An AST node's identity is its path   *)
(* from the module: the indices of the children taken, in field order.     *)

\* the child nodes ast.iter_child_nodes yields, in field order
Children(node) ==
    CASE node.k = "UnaryOp" -> <<node.operand>>
      [] node.k = "Attribute" -> <<node.value>>
      [] node.k = "Subscript" -> <<node.value, node.slice>>
      [] node.k \in {"List", "Tuple"} -> node.elts
      [] node.k = "keyword" -> <<node.value>>
      [] node.k = "BinOp" -> <<node.left, node.right>>
      [] node.k = "Compare" -> <<node.left>> \o node.comparators
      [] node.k = "Call" -> <<node.func>> \o node.args \o node.keywords
      [] node.k = "Expr" -> <<node.value>>
      [] node.k = "Assign" -> node.targets \o <<node.value>>
      [] node.k = "If" -> <<node.test>> \o node.body \o node.orelse
      [] node.k = "For" -> <<node.target, node.iter>> \o node.body \o node.orelse
      [] OTHER -> <<>>

\* an id made of the prefix and the counter as it stands, which is left
\* as it is
id_without_count(ds, prefix) ==
    R(ds, prefix \o "-" \o ToString(ds.node_count + 1))

\* _get_unique_id(prefix); val is the id
get_unique_id(ds, prefix) ==
    R([ds EXCEPT !.node_count = @ + 1],
      prefix \o "-" \o ToString(ds.node_count + 1))

NoneId == "None"

(* The methods run in a decompiler state ds and yield R(ds, val), as the   *)
(* compiler's do; a visit returns None (val = NoAst).                      *)

RECURSIVE visit(_, _, _), generic_visit(_, _, _), VisitChildren(_, _, _, _),
          get_input_data_from_ast(_, _, _), decompile_body(_, _, _, _),
          VisitBody(_, _, _, _, _), visit_Assign(_, _, _), visit_Expr(_, _, _),
          visit_If(_, _, _), visit_For(_, _, _), visit_Call(_, _, _, _),
          CallInputs(_, _, _, _), visit_BinOp(_, _, _), visit_Compare(_, _, _),
          InputData(_, _, _, _), BinaryOpNode(_, _, _, _, _, _, _)

\* NodeVisitor.generic_visit: visit the children from[..] of node, in order
VisitChildren(node, path, from, ds) ==
    IF from > Len(Children(node)) THEN R(ds, NoAst)
    ELSE Bind(visit(Children(node)[from], Append(path, from), ds),
              LAMBDA r : VisitChildren(node, path, from + 1, r.st))

generic_visit(node, path, ds) == VisitChildren(node, path, 1, ds)

visit(node, path, ds) ==
    CASE node.k = "Assign" -> visit_Assign(node, path, ds)
      [] node.k = "Expr" -> visit_Expr(node, path, ds)
      [] node.k = "If" -> visit_If(node, path, ds)
      [] node.k = "For" -> visit_For(node, path, ds)
      [] node.k = "Call" -> visit_Call(node, path, ds, FALSE)
      [] node.k = "BinOp" -> visit_BinOp(node, path, ds)
      [] node.k = "Compare" -> visit_Compare(node, path, ds)
      [] OTHER -> generic_visit(node, path, ds)

\* _get_input_data_from_ast(value_node); val is the dict returned
get_input_data_from_ast(value_node, path, ds) ==
    IF value_node.k = "Constant"
    THEN R(ds, [value |-> repr(value_node.const)])
    ELSE IF value_node.k = "Name"
    THEN IF value_node.id \in DOMAIN ds.variable_providers
         THEN R(ds, [link |-> ds.variable_providers[value_node.id]])
         ELSE Fail(ds, Raise("NameError",
                  "Variable '" \o value_node.id \o "' used before assignment."))
    ELSE IF value_node.k \in {"List", "Tuple", "Set", "Dict"}
    THEN R(ds, [value |-> unparse(value_node)])
    ELSE Bind(IF path \notin DOMAIN ds.expression_map
              THEN visit(value_node, path, ds)
              ELSE R(ds, NoAst),
              LAMBDA r : R(r.st, [link |-> IF path \in DOMAIN r.st.expression_map
                                           THEN r.st.expression_map[path]
                                           ELSE NoneId]))

\* input_data = self._get_input_data_from_ast(value_node);
\* input_data['name'] = name
InputData(value_node, path, name, ds) ==
    Bind(get_input_data_from_ast(value_node, path, ds),
         LAMBDA r : R(r.st, r.val @@ [name |-> name]))

\* the loop of _decompile_body over body_nodes[i..]; child i of the
\* statement at `path` that owns the list is body_nodes[i - offset]
VisitBody(body_nodes, i, path, offset, ds) ==
    IF i > Len(body_nodes) THEN R(ds, NoAst)
    ELSE Bind(visit(body_nodes[i], Append(path, offset + i), ds),
              LAMBDA r : VisitBody(body_nodes, i + 1, path, offset, r.st))

\* a body decompiled in a scope of its own: the providers are put back
\* to what they were before the body
decompile_body_in_scope(body_nodes, path, offset, ds) ==
    Bind(VisitBody(body_nodes, 1, path, offset,
                   [ds EXCEPT !.statement_nodes = <<>>]),
         LAMBDA r : R([r.st EXCEPT !.statement_nodes = ds.statement_nodes,
                                   !.variable_providers = ds.variable_providers],
                      r.st.statement_nodes))

\* _decompile_body(body_nodes); val is newly_added_nodes
decompile_body(body_nodes, path, offset, ds) ==
    Bind(VisitBody(body_nodes, 1, path, offset,
                   [ds EXCEPT !.statement_nodes = <<>>]),
         LAMBDA r : R([r.st EXCEPT !.statement_nodes = ds.statement_nodes],
                      r.st.statement_nodes))

visit_Assign(node, path, ds) ==
    LET vpath == Append(path, Len(node.targets) + 1)
        target == node.targets[1]
    IN  Bind(visit(node.value, vpath, ds), LAMBDA v :
        IF target.k # "Name"
        THEN Fail(v.st, Raise("NotImplementedError",
                  "Unsupported syntax: Assignment to non-simple targets"))
        ELSE
        Bind(get_unique_id(v.st, "assign"), LAMBDA node_id :
        Bind(InputData(node.value, vpath, "value", node_id.st), LAMBDA input_data :
             R([input_data.st EXCEPT
                  !.statement_nodes =
                      Append(@, [id |-> node_id.val,
                                 type |-> "variable_assign",
                                 value |-> target.id,
                                 inputs |-> <<input_data.val>>,
                                 is_intended_statement |-> TRUE]),
                  !.variable_providers = (target.id :> node_id.val) @@ @],
               NoAst))))

visit_Expr(node, path, ds) ==
    IF node.value.k = "Call"
    THEN visit_Call(node.value, Append(path, 1), ds, TRUE)
    ELSE generic_visit(node, path, ds)

visit_If(node, path, ds) ==
    Bind(get_unique_id(ds, "if"), LAMBDA node_id :
    Bind(visit(node.test, Append(path, 1), node_id.st), LAMBDA t :
    Bind(InputData(node.test, Append(path, 1), "test", t.st), LAMBDA test_input :
    Bind(decompile_body(node.body, path, 1, test_input.st), LAMBDA body :
    Bind(IF node.orelse # <<>>
         THEN decompile_body(node.orelse, path, 1 + Len(node.body), body.st)
         ELSE R(body.st, <<>>), LAMBDA orelse :
         R([orelse.st EXCEPT
              !.statement_nodes =
                  Append(@, [id |-> node_id.val,
                             type |-> "if_statement",
                             inputs |-> <<test_input.val>>,
                             body |-> body.val,
                             orelse |-> orelse.val,
                             is_intended_statement |-> TRUE])],
           NoAst))))))

\* the providers as the body left them
LeftByBody(providers, name, had_provider, previous_provider) == providers

\* lines 115-118: the provider of the loop variable is put back, or removed
Restored(providers, name, had_provider, previous_provider) ==
    IF had_provider /\ previous_provider # ""
    THEN (name :> previous_provider) @@ providers
    ELSE [n \in DOMAIN providers \ {name} |-> providers[n]]

visit_For(node, path, ds) ==
    IF node.orelse # <<>>
    THEN Fail(ds, Raise("NotImplementedError", "For/else loops are not supported."))
    ELSE IF node.target.k # "Name"
    THEN Fail(ds, Raise("NotImplementedError",
                        "Looping with complex targets is not supported."))
    ELSE
    LET target_var_name == node.target.id IN
    Bind(get_unique_id(ds, "for_loop"), LAMBDA node_id :
    Bind(visit(node.iter, Append(path, 2), node_id.st), LAMBDA it :
    Bind(InputData(node.iter, Append(path, 2), "iter", it.st), LAMBDA iter_input :
    Bind(decompile_body(node.body, path, 2,
                        [iter_input.st EXCEPT !.variable_providers =
                             (target_var_name :> node_id.val) @@ @]),
         LAMBDA body :
         R([body.st EXCEPT
              !.variable_providers =
                  Restored(@, target_var_name,
                      target_var_name \in DOMAIN iter_input.st.variable_providers,
                      IF target_var_name \in DOMAIN iter_input.st.variable_providers
                      THEN iter_input.st.variable_providers[target_var_name]
                      ELSE NoneId),
              !.statement_nodes =
                  Append(@, [id |-> node_id.val,
                             type |-> "for_loop",
                             target_variable |-> target_var_name,
                             inputs |-> <<iter_input.val>>,
                             body |-> body.val,
                             is_intended_statement |-> TRUE])],
           NoAst)))))

\* the loop of visit_Call that builds the inputs of args[i..];
\* val is the list `inputs`
CallInputs(node, path, i, ds) ==
    IF i > Len(node.args) THEN R(ds, <<>>)
    ELSE Bind(InputData(node.args[i], Append(path, 1 + i),
                        "arg" \o ToString(i - 1), ds),
              LAMBDA r : Cons(r.val, CallInputs(node, path, i + 1, r.st)))

visit_Call(node, path, ds, is_statement) ==
    IF node.func.k # "Name" THEN R(ds, NoAst)
    ELSE IF node.keywords # <<>>
    THEN Fail(ds, Raise("NotImplementedError",
                        "Keyword arguments are not yet supported."))
    ELSE
    \* args are children 2.. of the Call (func is child 1)
    Bind(VisitBody(node.args, 1, path, 1, ds), LAMBDA v :
    Bind(get_unique_id(v.st, "call"), LAMBDA node_id :
    Bind(CallInputs(node, path, 1, node_id.st), LAMBDA inputs :
         LET plexus_node == [id |-> node_id.val,
                             type |-> "call_function",
                             func_name |-> node.func.id,
                             inputs |-> inputs.val,
                             is_intended_statement |-> is_statement]
         IN  R([inputs.st EXCEPT
                  !.statement_nodes =
                      IF is_statement THEN Append(@, plexus_node) ELSE @,
                  !.expression_nodes =
                      IF is_statement THEN @ ELSE Append(@, plexus_node),
                  !.expression_map = (path :> node_id.val) @@ @],
               NoAst))))

\* the tail shared by visit_BinOp and visit_Compare: the binary_op node
\* of operator op_str over the children 1 and 2 of the node at `path`
BinaryOpNode(node, left, right, op_str, node_id, path, ds) ==
    Bind(InputData(left, Append(path, 1), "left", ds), LAMBDA left_input :
    Bind(InputData(right, Append(path, 2), "right", left_input.st),
         LAMBDA right_input :
         R([right_input.st EXCEPT
              !.expression_nodes =
                  Append(@, [id |-> node_id,
                             type |-> "binary_op",
                             value |-> op_str,
                             inputs |-> <<left_input.val, right_input.val>>,
                             is_intended_statement |-> FALSE]),
              !.expression_map = (path :> node_id) @@ @],
           NoAst)))

visit_BinOp(node, path, ds) ==
    Bind(visit(node.left, Append(path, 1), ds), LAMBDA l :
    Bind(visit(node.right, Append(path, 2), l.st), LAMBDA r :
    Bind(get_unique_id(r.st, "op"), LAMBDA node_id :
         IF node.op \notin DOMAIN REVERSE_BINOP_MAP
         THEN generic_visit(node, path, node_id.st)
         ELSE BinaryOpNode(node, node.left, node.right,
                           REVERSE_BINOP_MAP[node.op], node_id.val, path,
                           node_id.st))))

visit_Compare(node, path, ds) ==
    Bind(visit(node.left, Append(path, 1), ds), LAMBDA l :
    Bind(visit(node.comparators[1], Append(path, 2), l.st), LAMBDA r :
         IF Len(node.ops) # 1 THEN generic_visit(node, path, r.st)
         ELSE Bind(get_unique_id(r.st, "op"), LAMBDA node_id :
              IF node.ops[1] \notin DOMAIN REVERSE_CMPOP_MAP
              THEN generic_visit(node, path, node_id.st)
              ELSE BinaryOpNode(node, node.left, node.comparators[1],
                                REVERSE_CMPOP_MAP[node.ops[1]], node_id.val,
                                path, node_id.st))))

----------------------------------------------------------------------------
(* The state machine.  decompile_python_to_json runs as Parse, one Visit   *)
(* per statement of the module (NodeVisitor.generic_visit's loop) and      *)
(* GetGraph; build_ast_from_json runs as Construct (ASTCompiler.__init__), *)
(* one CompileNode per iteration of compile()'s second loop, and Emit.     *)

DecompilerFresh ==
    /\ statement_nodes = <<>>
    /\ expression_nodes = <<>>
    /\ variable_providers = <<>>
    /\ expression_map = <<>>
    /\ node_count = 0
    /\ di = 0
    /\ derr = NoError

CompilerFresh ==
    /\ node_map = <<>>
    /\ expression_cache = <<>>
    /\ compiled_statements = {}
    /\ tree = <<>>
    /\ ci = 0
    /\ cerr = NoError
    /\ output = <<>>

\* the round trip of tests/test_all.py: a source is decompiled, and the
\* graph returned is compiled
Init ==
    /\ pc = "source"
    /\ source \in Sources
    /\ graph = NoGraph
    /\ DecompilerFresh
    /\ CompilerFresh

\* a graph written by hand is compiled
InitCompile ==
    /\ pc = "graph"
    /\ source = NoSource
    /\ graph \in Graphs
    /\ DecompilerFresh
    /\ CompilerFresh

compilerVars == <<node_map, expression_cache, compiled_statements, tree, ci,
                  cerr, output>>
decompilerVars == <<statement_nodes, expression_nodes, variable_providers,
                    expression_map, node_count, di, derr>>

DecompilerState ==
    [statement_nodes |-> statement_nodes,
     expression_nodes |-> expression_nodes,
     variable_providers |-> variable_providers,
     expression_map |-> expression_map,
     node_count |-> node_count,
     err |-> NoError]

\* ast.parse(python_code) and JSONDecompiler()
Parse ==
    /\ pc = "source"
    /\ IF source.ok
       THEN pc' = "visit" /\ derr' = derr
       ELSE /\ pc' = "failed"
            /\ derr' = Raise("ValueError", "Invalid Python code provided")
    /\ UNCHANGED <<source, graph, statement_nodes, expression_nodes,
                   variable_providers, expression_map, node_count, di>>
    /\ UNCHANGED compilerVars

\* decompiler.visit(ast_tree): the visit of the next statement of the module
Visit ==
    /\ pc = "visit"
    /\ di < Len(source.body)
    /\ LET ds == visit(source.body[di + 1], <<di + 1>>, DecompilerState).st IN
       /\ statement_nodes' = ds.statement_nodes
       /\ expression_nodes' = ds.expression_nodes
       /\ variable_providers' = ds.variable_providers
       /\ expression_map' = ds.expression_map
       /\ node_count' = ds.node_count
       /\ derr' = ds.err
       /\ pc' = IF ds.err = NoError THEN "visit" ELSE "failed"
    /\ di' = di + 1
    /\ UNCHANGED <<source, graph>>
    /\ UNCHANGED compilerVars

\* get_graph()
GetGraph ==
    /\ pc = "visit"
    /\ di = Len(source.body)
    /\ graph' = [nodes |-> statement_nodes \o expression_nodes,
                 connections |-> <<>>]
    /\ pc' = "graph"
    /\ UNCHANGED source
    /\ UNCHANGED decompilerVars
    /\ UNCHANGED compilerVars

\* ASTCompiler(graph_json)
Construct ==
    /\ pc = "graph"
    /\ IF "nodes" \notin DOMAIN graph
       THEN /\ cerr' = Raise("ValueError",
                   "Input JSON must contain a 'nodes' key with a list of nodes.")
            /\ node_map' = node_map
            /\ pc' = "failed"
       ELSE LET r == discover_nodes(graph.nodes, 1, <<>>) IN
            /\ node_map' = r.nm
            /\ cerr' = r.err
            /\ pc' = IF r.err = NoError THEN "compile" ELSE "failed"
    /\ UNCHANGED <<source, graph, expression_cache, compiled_statements, tree,
                   ci, output>>
    /\ UNCHANGED decompilerVars

\* one iteration of the loop of compile() over self.graph['nodes']
CompileNode ==
    /\ pc = "compile"
    /\ ci < Len(graph.nodes)
    /\ LET node == graph.nodes[ci + 1]
           st == [cache |-> expression_cache, compiled |-> compiled_statements,
                  err |-> NoError]
           r == IF node.id \notin linked_ids(graph)
                THEN build_statement(node_map, node, st)
                ELSE R(st, NoAst)
       IN  /\ expression_cache' = r.st.cache
           /\ compiled_statements' = r.st.compiled
           /\ cerr' = r.st.err
           /\ tree' = IF r.st.err = NoError /\ r.val # NoAst
                      THEN Append(tree, r.val) ELSE tree
           /\ pc' = IF r.st.err = NoError THEN "compile" ELSE "failed"
    /\ ci' = ci + 1
    /\ UNCHANGED <<source, graph, node_map, output>>
    /\ UNCHANGED decompilerVars

\* ast.unparse(tree): compile() returns
Emit ==
    /\ pc = "compile"
    /\ ci = Len(graph.nodes)
    /\ output' = unparse_module(tree)
    /\ pc' = "done"
    /\ UNCHANGED <<source, graph, node_map, expression_cache,
                   compiled_statements, tree, ci, cerr>>
    /\ UNCHANGED decompilerVars

NextCompile == Construct \/ CompileNode \/ Emit

Next == Parse \/ Visit \/ GetGraph \/ NextCompile

Spec == Init /\ [][Next]_vars

SpecCompile == InitCompile /\ [][NextCompile]_vars

----------------------------------------------------------------------------
(* Properties: what the statements below speak of *)

RECURSIVE AllNodes(_)
\* the nodes of a node list, at every depth of body and orelse
AllNodes(nodes) ==
    UNION {{nodes[i]} \cup AllNodes(GetList(nodes[i], "body"))
                      \cup AllNodes(GetList(nodes[i], "orelse")) :
           i \in 1..Len(nodes)}

\* the ids the nodes of the graph g carry
AllIds(g) == {n.id : n \in {m \in AllNodes(g.nodes) : "id" \in DOMAIN m}}

\* every node of g has an id and a type
Typed(g) ==
    \A n \in AllNodes(g.nodes) : "id" \in DOMAIN n /\ TruthyStr(n, "type")

\* node is the node that discovery registered under its id
Registered(node) ==
    "id" \in DOMAIN node /\ node.id \in DOMAIN node_map /\ node_map[node.id] = node

RECURSIVE IsLiteralExpr(_)
\* a constant, or a list or tuple of literals
IsLiteralExpr(e) ==
    CASE e.k = "Constant" -> TRUE
      [] e.k \in {"List", "Tuple"} ->
           \A i \in 1..Len(e.elts) : IsLiteralExpr(e.elts[i])
      [] OTHER -> FALSE

RECURSIVE SupportedExpr(_)
\* the expressions of the supported subset; of the constants, the numbers,
\* strings, True, False and None (the Ellipsis constant is left out)
SupportedExpr(e) ==
    CASE e.k = "Name" -> TRUE
      [] e.k = "Constant" -> e.const # "..."
      [] e.k \in {"List", "Tuple"} ->
           \A i \in 1..Len(e.elts) : e.elts[i].k = "Constant" /\ SupportedExpr(e.elts[i])
      [] e.k = "BinOp" ->
           /\ e.op \in DOMAIN REVERSE_BINOP_MAP
           /\ SupportedExpr(e.left) /\ SupportedExpr(e.right)
      [] e.k = "Compare" ->
           /\ Len(e.ops) = 1 /\ e.ops[1] \in DOMAIN REVERSE_CMPOP_MAP
           /\ SupportedExpr(e.left) /\ SupportedExpr(e.comparators[1])
      [] e.k = "Call" ->
           /\ e.func.k = "Name" /\ e.keywords = <<>>
           /\ \A i \in 1..Len(e.args) : SupportedExpr(e.args[i])
      [] OTHER -> FALSE

RECURSIVE SupportedStmt(_)
\* the statements of the supported subset
SupportedStmt(s) ==
    CASE s.k = "Assign" ->
           Len(s.targets) = 1 /\ s.targets[1].k = "Name" /\ SupportedExpr(s.value)
      [] s.k = "Expr" -> s.value.k = "Call" /\ SupportedExpr(s.value)
      [] s.k = "If" ->
           /\ SupportedExpr(s.test)
           /\ \A i \in 1..Len(s.body) : SupportedStmt(s.body[i])
           /\ \A i \in 1..Len(s.orelse) : SupportedStmt(s.orelse[i])
      [] s.k = "For" ->
           /\ s.target.k = "Name" /\ s.orelse = <<>> /\ SupportedExpr(s.iter)
           /\ \A i \in 1..Len(s.body) : SupportedStmt(s.body[i])
      [] OTHER -> FALSE

RECURSIVE Mentions(_, _)
\* the name var occurs in the AST node
Mentions(node, var) ==
    \/ node.k = "Name" /\ node.id = var
    \/ \E i \in 1..Len(Children(node)) : Mentions(Children(node)[i], var)

\* the statement reads var (the targets of an assignment are written)
Reads(stmt, var) ==
    IF stmt.k = "Assign" THEN Mentions(stmt.value, var) ELSE Mentions(stmt, var)

RECURSIVE HasKeywordCall(_)
\* a call with keyword arguments occurs in the AST node
HasKeywordCall(node) ==
    \/ node.k = "Call" /\ node.keywords # <<>>
    \/ \E i \in 1..Len(Children(node)) : HasKeywordCall(Children(node)[i])

----------------------------------------------------------------------------
(* C1 *)

\* C1: round-trip identity.  When the round trip of a program of the
\* supported subset ends, the text compile returns is the text of the
\* program itself (two canonical texts are equal exactly when the ASTs
\* they parse to are equal, positions ignored).
C1_RoundTripIdentity ==
    (/\ pc = "done"
     /\ source.ok
     /\ \A i \in 1..Len(source.body) : SupportedStmt(source.body[i]))
    => output = unparse_module(source.body)

----------------------------------------------------------------------------
(* C2 *)

\* the literal text of the `value` input of a variable_assign node
ValueText(node) == get_input(node, "value").input.value

\* the top-level node at position i is a variable_assign of a literal
\* that an input of another top-level node links to
LinkedAssign(i) ==
    LET node == graph.nodes[i] IN
    /\ Registered(node)
    /\ "type" \in DOMAIN node /\ node.type = "variable_assign"
    /\ "value" \in DOMAIN node
    /\ get_input(node, "value").found
    /\ "value" \in DOMAIN get_input(node, "value").input
    /\ ValueText(node) \in DOMAIN ParseTable
    /\ IsLiteralExpr(ParseTable[ValueText(node)])
    /\ \E j \in 1..Len(graph.nodes) : j # i /\ node.id \in LinksOf(graph.nodes[j])

\* C2: when a graph has been compiled, every top-level variable_assign
\* node that another top-level node links to has its assignment
\* `<name> = <value>` among the statements of the program, and no
\* statement before that assignment reads the variable.
C2_LinkedAssignEmitted ==
    pc = "done" =>
        \A i \in 1..Len(graph.nodes) :
            LinkedAssign(i) =>
                \E k \in 1..Len(tree) :
                    /\ tree[k].k = "Assign"
                    /\ tree[k] = Assign(<<Name(graph.nodes[i].value)>>,
                                        ParseTable[ValueText(graph.nodes[i])])
                    /\ \A m \in 1..(k - 1) : ~Reads(tree[m], graph.nodes[i].value)

----------------------------------------------------------------------------
(* C3 *)

\* the elements of a sequence
RangeOf(seq) == {seq[i] : i \in 1..Len(seq)}

\* node is a print node whose `target` input is a literal, or a link to a
\* registered variable_assign node
PrintOfTarget(node) ==
    /\ Registered(node)
    /\ "type" \in DOMAIN node /\ node.type = "print"
    /\ get_input(node, "target").found
    /\ LET target == get_input(node, "target").input IN
       IF "link" \in DOMAIN target
       THEN /\ target.link \in DOMAIN node_map
            /\ "type" \in DOMAIN node_map[target.link]
            /\ node_map[target.link].type = "variable_assign"
            /\ "value" \in DOMAIN node_map[target.link]
       ELSE /\ "value" \in DOMAIN target
            /\ target.value \in DOMAIN ParseTable
            /\ IsLiteralExpr(ParseTable[target.value])

\* the line `print(<target>)` that a print node stands for
PrintLine(node, indent) ==
    LET target == get_input(node, "target").input IN
    indent \o "print("
    \o (IF "link" \in DOMAIN target THEN node_map[target.link].value
        ELSE unparse(ParseTable[target.value]))
    \o ")"

\* the top-level node is an if_statement that compile takes as a statement
IfRoot(node) ==
    /\ Registered(node)
    /\ "type" \in DOMAIN node /\ node.type = "if_statement"
    /\ node.id \notin linked_ids(graph)

\* C3: when a graph has been compiled, every print node with a `target`
\* input, at top level or in the body or orelse of a top-level if, has
\* its line `print(<target>)` in the text.
C3_PrintNodeCompiled ==
    pc = "done" =>
        \A i \in 1..Len(graph.nodes) :
            LET node == graph.nodes[i] IN
            /\ (PrintOfTarget(node) /\ node.id \notin linked_ids(graph))
                   => \E k \in 1..Len(output) : output[k] = PrintLine(node, "")
            /\ IfRoot(node) =>
                   \A inner \in {n \in RangeOf(GetList(node, "body"))
                                       \cup RangeOf(GetList(node, "orelse")) :
                                     PrintOfTarget(n)} :
                       \E k \in 1..Len(output) : output[k] = PrintLine(inner, "    ")

----------------------------------------------------------------------------
(* C4 *)

\* the program is `<name> = <literal>` followed by `print(<name>)`
AssignThenPrint ==
    /\ source.ok
    /\ Len(source.body) = 2
    /\ source.body[1].k = "Assign"
    /\ Len(source.body[1].targets) = 1
    /\ source.body[1].targets[1].k = "Name"
    /\ source.body[1].value.k = "Constant"
    /\ source.body[2].k = "Expr"
    /\ source.body[2].value.k = "Call"
    /\ source.body[2].value =
           Call(Name("print"), <<Name(source.body[1].targets[1].id)>>, <<>>)

\* C4: the graph decompile returns for `<name> = <literal>` followed by
\* `print(<name>)` has no connections and exactly two nodes: assign-1, a
\* variable_assign whose `value` input is the literal text, and print-2,
\* of type print, whose one input `target` links to assign-1; the nodes
\* have no other fields.
C4_AssignThenPrintGraph ==
    (AssignThenPrint /\ pc \notin {"source", "visit"}) =>
        graph = [nodes |->
                    <<[id |-> "assign-1",
                       type |-> "variable_assign",
                       value |-> source.body[1].targets[1].id,
                       inputs |-> <<[name |-> "value",
                                     value |-> repr(source.body[1].value.const)]>>],
                      [id |-> "print-2",
                       type |-> "print",
                       inputs |-> <<[name |-> "target", link |-> "assign-1"]>>]>>,
                 connections |-> <<>>]

----------------------------------------------------------------------------
(* C5 *)

\* the ids that links of the graph g name and no node of g carries
Dangling(g) ==
    UNION {LinksOf(n) : n \in AllNodes(g.nodes)} \ AllIds(g)

\* C5: when the compilation of a graph that has a link to an id no node
\* carries ends, it has failed with "Node link '<id>' not found in
\* graph." for such an id, and no text is returned.
C5_DanglingLinkRejected ==
    (/\ pc \in {"done", "failed"}
     /\ "nodes" \in DOMAIN graph
     /\ Typed(graph)
     /\ Dangling(graph) # {})
    => /\ pc = "failed"
       /\ \E id \in Dangling(graph) : cerr = LinkNotFound(id)
       /\ output = <<>>

----------------------------------------------------------------------------
(* C6 *)

\* C6: once a graph with a node that has no id, at any depth, has been
\* handed to the compiler, the compilation has failed with the missing-id
\* error, and no expression and no statement has been built.
C6_MissingIdRejected ==
    (/\ pc # "graph"
     /\ "nodes" \in DOMAIN graph
     /\ \E n \in AllNodes(graph.nodes) : "id" \notin DOMAIN n)
    => /\ pc = "failed"
       /\ cerr = MissingId
       /\ expression_cache = <<>>
       /\ compiled_statements = {}
       /\ tree = <<>>

----------------------------------------------------------------------------
(* C7 *)

\* the named inputs that the kind of a node requires
RequiredSlots(node) ==
    CASE node.type = "variable_assign" -> {"value"}
      [] node.type = "binary_op" -> {"left", "right"}
      [] node.type = "if_statement" -> {"test"}
      [] node.type = "for_loop" -> {"iter"}
      [] OTHER -> {}

\* the required inputs that node does not have
MissingSlots(node) == {slot \in RequiredSlots(node) : ~get_input(node, slot).found}

\* C7: when the compilation of a graph with a node that lacks an input
\* its kind requires ends, it has failed with the missing-input error
\* that names such a node and the slot it lacks, and no text is returned.
C7_MissingInputRejected ==
    (/\ pc \in {"done", "failed"}
     /\ "nodes" \in DOMAIN graph
     /\ Typed(graph)
     /\ \E n \in AllNodes(graph.nodes) : MissingSlots(n) # {})
    => /\ pc = "failed"
       /\ \E n \in AllNodes(graph.nodes) :
              \E slot \in MissingSlots(n) : cerr = MissingInput(n, slot)
       /\ output = <<>>

----------------------------------------------------------------------------
(* C8 *)

\* an assignment with several targets, or to a target that is no name
MultiOrComplexAssign(s) ==
    s.k = "Assign" /\ (Len(s.targets) > 1 \/ s.targets[1].k # "Name")

\* C8: once decompile has visited an assignment statement that has more
\* than one target, or a target that is not a simple name, it has failed
\* with the unsupported-syntax error and there is no graph.  (The value
\* of the assignment is visited first: an assignment whose value holds a
\* call with keyword arguments is left to C9.)
C8_MultiAssignRejected ==
    \A i \in 1..di :
        (MultiOrComplexAssign(source.body[i]) /\ ~HasKeywordCall(source.body[i]))
        => /\ pc = "failed"
           /\ derr = Raise("NotImplementedError",
                           "Unsupported syntax: Assignment to non-simple targets")
           /\ graph = NoGraph

----------------------------------------------------------------------------
(* C9 *)

\* C9: once decompile has visited a statement in which a call with
\* keyword arguments occurs, as the statement itself or as a
\* sub-expression, it has failed with the keyword-argument error and
\* there is no graph.
C9_KeywordArgsRejected ==
    \A i \in 1..di :
        HasKeywordCall(source.body[i])
        => /\ pc = "failed"
           /\ derr = Raise("NotImplementedError",
                           "Keyword arguments are not yet supported.")
           /\ graph = NoGraph

----------------------------------------------------------------------------
(* C10 *)

\* the top-level node is one that compile takes as a statement
StatementRoot(node) ==
    Registered(node) /\ "type" \in DOMAIN node /\ node.id \notin linked_ids(graph)

\* the literal texts that building the statement of node resolves: the
\* `value` input of a variable_assign, every input of a call_function
ResolvedTexts(node) ==
    LET inputs == GetList(node, "inputs")
        value == get_input(node, "value")
    IN  IF node.type = "variable_assign"
        THEN IF value.found /\ "link" \notin DOMAIN value.input
                /\ "value" \in DOMAIN value.input
             THEN {value.input.value} ELSE {}
        ELSE IF node.type = "call_function"
        THEN {inputs[j].value :
                 j \in {j \in 1..Len(inputs) : /\ "link" \notin DOMAIN inputs[j]
                                               /\ "value" \in DOMAIN inputs[j]}}
        ELSE {}

\* the text is not that of a constant or of a collection of literals
NonLiteralText(text) ==
    text \notin DOMAIN ParseTable \/ ~IsLiteralExpr(ParseTable[text])

\* C10: once compile has built the statement of a top-level
\* variable_assign or call_function node that has a literal input whose
\* text is not a constant or a collection of literals, the compilation
\* has failed and no text is returned.
C10_NonLiteralTextRejected ==
    \A i \in 1..ci :
        (/\ StatementRoot(graph.nodes[i])
         /\ \E text \in ResolvedTexts(graph.nodes[i]) : NonLiteralText(text))
        => pc = "failed" /\ output = <<>>

----------------------------------------------------------------------------
(* C11 *)

\* decompile has returned the graph of the program
Decompiled == source.ok /\ derr = NoError /\ pc \notin {"source", "visit"}

\* every statement of the program is of the supported subset: each one
\* becomes one statement node, so statement i is the node graph.nodes[i]
AllSupported == \A i \in 1..Len(source.body) : SupportedStmt(source.body[i])

RECURSIVE Binds(_, _)
\* the statement binds var, itself or in its body or orelse
Binds(s, var) ==
    CASE s.k = "Assign" -> \E t \in 1..Len(s.targets) : Mentions(s.targets[t], var)
      [] s.k = "If" ->
           \/ \E j \in 1..Len(s.body) : Binds(s.body[j], var)
           \/ \E j \in 1..Len(s.orelse) : Binds(s.orelse[j], var)
      [] s.k = "For" ->
           \/ Mentions(s.target, var)
           \/ \E j \in 1..Len(s.body) : Binds(s.body[j], var)
      [] OTHER -> FALSE

\* the node of the graph with the given id
NodeOf(id) == CHOOSE n \in AllNodes(graph.nodes) : "id" \in DOMAIN n /\ n.id = id

\* the operands of an expression that becomes a node, in input order
Operands(e) ==
    CASE e.k = "BinOp" -> <<e.left, e.right>>
      [] e.k = "Compare" -> <<e.left, e.comparators[1]>>
      [] e.k = "Call" -> e.args

RECURSIVE InputReads(_, _, _, _)
\* in the input inp made from the expression e, and in the inputs of the
\* expression nodes under it, every read of var is a link to id
InputReads(e, inp, var, id) ==
    CASE e.k = "Name" -> (e.id = var) => ("link" \in DOMAIN inp /\ inp.link = id)
      [] e.k \in {"BinOp", "Compare", "Call"} ->
           /\ "link" \in DOMAIN inp
           /\ inp.link \in AllIds(graph)
           /\ LET n == NodeOf(inp.link) IN
              /\ Len(n.inputs) = Len(Operands(e))
              /\ \A c \in 1..Len(n.inputs) :
                     InputReads(Operands(e)[c], n.inputs[c], var, id)
      [] OTHER -> TRUE

RECURSIVE StmtReads(_, _, _, _)
\* in the node made from the statement s every read of var is a link to id
StmtReads(s, node, var, id) ==
    CASE s.k = "Assign" -> InputReads(s.value, node.inputs[1], var, id)
      [] s.k = "Expr" ->
           /\ Len(node.inputs) = Len(s.value.args)
           /\ \A c \in 1..Len(node.inputs) :
                  InputReads(s.value.args[c], node.inputs[c], var, id)
      [] s.k = "If" ->
           /\ InputReads(s.test, node.inputs[1], var, id)
           /\ Len(node.body) = Len(s.body) /\ Len(node.orelse) = Len(s.orelse)
           /\ \A j \in 1..Len(s.body) : StmtReads(s.body[j], node.body[j], var, id)
           /\ \A j \in 1..Len(s.orelse) :
                  StmtReads(s.orelse[j], node.orelse[j], var, id)
      [] s.k = "For" ->
           /\ InputReads(s.iter, node.inputs[1], var, id)
           /\ Len(node.body) = Len(s.body)
           /\ \A j \in 1..Len(s.body) : StmtReads(s.body[j], node.body[j], var, id)
      [] OTHER -> TRUE

\* statement i of the program is a for loop whose body does not bind the
\* loop variable again
PlainLoop(i) ==
    /\ source.body[i].k = "For"
    /\ \A j \in 1..Len(source.body[i].body) :
           ~Binds(source.body[i].body[j], source.body[i].target.id)

\* C11: loop-variable scoping.  For a for loop of a supported program
\* whose body does not bind the loop variable again: in the graph
\* decompile returns, every read of the loop variable in the body is a
\* link to the for node; compile never caches an expression for a
\* for_loop node; and when the graph has been compiled, the loop is in the
\* program as it was written, so its body reads the loop-bound name.
C11_LoopVariableScoping ==
    (Decompiled /\ AllSupported) =>
        \A i \in 1..Len(source.body) :
            PlainLoop(i) =>
                /\ graph.nodes[i].type = "for_loop"
                /\ Len(graph.nodes[i].body) = Len(source.body[i].body)
                /\ \A j \in 1..Len(source.body[i].body) :
                       StmtReads(source.body[i].body[j], graph.nodes[i].body[j],
                                 source.body[i].target.id, graph.nodes[i].id)
                /\ graph.nodes[i].id \notin DOMAIN expression_cache
                /\ pc = "done" => \E k \in 1..Len(tree) : tree[k] = source.body[i]

----------------------------------------------------------------------------
(* C12 *)

\* the node types that _build_statement makes a statement of
StatementTypes == {"variable_assign", "call_function", "if_statement", "for_loop"}

\* no node of the list is of a type that _build_statement makes a
\* statement of, so the list yields no statement
YieldsNothing(nodes) ==
    \A j \in 1..Len(nodes) :
        /\ "id" \in DOMAIN nodes[j]
        /\ TruthyStr(nodes[j], "type")
        /\ nodes[j].type \notin StatementTypes

RECURSIVE NonEmptyBodies(_)
\* every if and for in the statement, at any depth, has a body, and a
\* pass stands only alone
NonEmptyBodies(s) ==
    CASE s.k = "If" ->
           /\ s.body # <<>>
           /\ s.body = <<Pass>> \/ \A j \in 1..Len(s.body) : s.body[j] # Pass
           /\ \A j \in 1..Len(s.body) : NonEmptyBodies(s.body[j])
           /\ \A j \in 1..Len(s.orelse) :
                  s.orelse[j] # Pass /\ NonEmptyBodies(s.orelse[j])
      [] s.k = "For" ->
           /\ s.body # <<>>
           /\ s.body = <<Pass>> \/ \A j \in 1..Len(s.body) : s.body[j] # Pass
           /\ \A j \in 1..Len(s.body) : NonEmptyBodies(s.body[j])
           /\ s.orelse = <<>>
      [] OTHER -> TRUE

\* the statement stmt emitted for the root node has `pass` for a body
\* that is missing, empty or yields nothing, and no else block for an
\* orelse that is missing, empty or yields nothing
PassForNoBody(node, stmt) ==
    /\ node.type \in {"if_statement", "for_loop"} =>
           (YieldsNothing(GetList(node, "body")) => stmt.body = <<Pass>>)
    /\ node.type = "if_statement" =>
           (YieldsNothing(GetList(node, "orelse")) => stmt.orelse = <<>>)

\* C12: every if and every for statement that compile emits has a
\* non-empty body: when the body list of the node is missing, empty or
\* yields no statement the body is a single `pass`, and an empty orelse
\* stays empty.
C12_EmittedBodiesNonEmpty ==
    [][(pc = "compile" /\ tree' # tree) =>
          /\ NonEmptyBodies(tree'[Len(tree')])
          /\ PassForNoBody(graph.nodes[ci + 1], tree'[Len(tree')])]_vars

\* an if and a for without a body list have both been emitted with `pass`
C12_PassEmitted ==
    /\ pc = "done"
    /\ \E n \in 1..Len(graph.nodes) :
           graph.nodes[n].type = "if_statement" /\ "body" \notin DOMAIN graph.nodes[n]
    /\ \E n \in 1..Len(graph.nodes) :
           graph.nodes[n].type = "for_loop" /\ "body" \notin DOMAIN graph.nodes[n]
    /\ \E k \in 1..Len(tree) :
           tree[k].k = "If" /\ tree[k].body = <<Pass>> /\ tree[k].orelse = <<>>
    /\ \E k \in 1..Len(tree) : tree[k].k = "For" /\ tree[k].body = <<Pass>>

----------------------------------------------------------------------------
(* C13 *)

RECURSIVE PlainExpr(_)
\* the expressions of the supported subset, with lists and tuples whose
\* elements are such expressions again
PlainExpr(e) ==
    CASE e.k \in {"List", "Tuple"} -> \A i \in 1..Len(e.elts) : PlainExpr(e.elts[i])
      [] e.k = "BinOp" ->
           e.op \in DOMAIN REVERSE_BINOP_MAP /\ PlainExpr(e.left) /\ PlainExpr(e.right)
      [] e.k = "Compare" ->
           /\ Len(e.ops) = 1 /\ e.ops[1] \in DOMAIN REVERSE_CMPOP_MAP
           /\ PlainExpr(e.left) /\ PlainExpr(e.comparators[1])
      [] e.k = "Call" ->
           /\ e.func.k = "Name" /\ e.keywords = <<>>
           /\ \A i \in 1..Len(e.args) : PlainExpr(e.args[i])
      [] OTHER -> SupportedExpr(e)

RECURSIVE PlainStmt(_)
\* the statements of the supported subset over such expressions
PlainStmt(s) ==
    CASE s.k = "Assign" ->
           Len(s.targets) = 1 /\ s.targets[1].k = "Name" /\ PlainExpr(s.value)
      [] s.k = "Expr" -> s.value.k = "Call" /\ PlainExpr(s.value)
      [] s.k = "If" ->
           /\ PlainExpr(s.test)
           /\ \A i \in 1..Len(s.body) : PlainStmt(s.body[i])
           /\ \A i \in 1..Len(s.orelse) : PlainStmt(s.orelse[i])
      [] s.k = "For" ->
           /\ s.target.k = "Name" /\ s.orelse = <<>> /\ PlainExpr(s.iter)
           /\ \A i \in 1..Len(s.body) : PlainStmt(s.body[i])
      [] OTHER -> FALSE

RECURSIVE NamesRead(_)
\* the variable names a plain expression reads: an operand, a call
\* argument or an element of a list or tuple, at any depth
NamesRead(e) ==
    CASE e.k = "Name" -> {e.id}
      [] e.k \in {"List", "Tuple"} -> UNION {NamesRead(e.elts[i]) : i \in 1..Len(e.elts)}
      [] e.k = "BinOp" -> NamesRead(e.left) \cup NamesRead(e.right)
      [] e.k = "Compare" -> NamesRead(e.left) \cup NamesRead(e.comparators[1])
      [] e.k = "Call" -> UNION {NamesRead(e.args[i]) : i \in 1..Len(e.args)}
      [] OTHER -> {}

RECURSIVE ScanStmt(_, _), ScanBody(_, _, _)
\* r.bound is the set of names with an entry in the provider map before
\* the statement, r.hit tells that a name was read without an entry; the
\* result is the same after the statement (an if shares the map with its
\* branches, a for binds its variable for the body and puts back what the
\* name had before)
ScanStmt(s, r) ==
    IF r.hit THEN r
    ELSE CASE s.k = "Assign" ->
                [bound |-> r.bound \cup {s.targets[1].id},
                 hit |-> ~(NamesRead(s.value) \subseteq r.bound)]
           [] s.k = "Expr" ->
                [r EXCEPT !.hit = ~(NamesRead(s.value) \subseteq r.bound)]
           [] s.k = "If" ->
                ScanBody(s.orelse, 1,
                    ScanBody(s.body, 1,
                        [r EXCEPT !.hit = ~(NamesRead(s.test) \subseteq r.bound)]))
           [] s.k = "For" ->
                [ScanBody(s.body, 1,
                     [bound |-> r.bound \cup {s.target.id},
                      hit |-> ~(NamesRead(s.iter) \subseteq r.bound)])
                 EXCEPT !.bound = IF s.target.id \in r.bound THEN @
                                  ELSE @ \ {s.target.id}]

ScanBody(stmts, i, r) ==
    IF i > Len(stmts) THEN r
    ELSE ScanBody(stmts, i + 1, ScanStmt(stmts[i], r))

\* the program reads a name at a point where nothing has bound it
UnboundRead == ScanBody(source.body, 1, [bound |-> {}, hit |-> FALSE]).hit

\* C13: decompiling a program of plain statements in which a name is
\* read (as an assignment value, a call argument, an operand, an if
\* test, a for iterable or an element of a list or tuple) at a point
\* where the provider map has no entry for it fails with an error: no
\* graph is returned.
C13_UnboundReadRejected ==
    (/\ source.ok
     /\ \A i \in 1..Len(source.body) : PlainStmt(source.body[i])
     /\ UnboundRead
     /\ pc \notin {"source", "visit"})
    => derr # NoError

----------------------------------------------------------------------------
(* C14 *)

\* the ids that some input of some node links to, nested nodes included
AllLinks(g) == UNION {LinksOf(n) : n \in AllNodes(g.nodes)}

\* every node has an id and no two nodes have the same
DistinctIds(g) ==
    /\ \A n \in AllNodes(g.nodes) : "id" \in DOMAIN n
    /\ \A n, m \in AllNodes(g.nodes) : n.id = m.id => n = m
    /\ \A i, j \in 1..Len(g.nodes) : g.nodes[i].id = g.nodes[j].id => i = j

\* the positions of the top-level nodes that no link targets
Roots(g) == {n \in 1..Len(g.nodes) : g.nodes[n].id \notin AllLinks(g)}

\* C14: compile never silently omits a statement root.  In a graph of
\* nodes with distinct ids whose links all start at top-level nodes, when
\* compile returns without an error it has emitted one statement for every
\* top-level node that no link targets, whatever the type of the node.
C14_NoRootOmitted ==
    (/\ pc = "done"
     /\ cerr = NoError
     /\ DistinctIds(graph)
     /\ AllLinks(graph) = linked_ids(graph))
    => Len(tree) = Cardinality(Roots(graph))

----------------------------------------------------------------------------
(* C15 *)

\* no link of the graph targets a for_loop node (such a link is a read of
\* the loop variable, not the use of an expression)
NoLoopVariableLink(g) ==
    \A n \in AllNodes(g.nodes) : n.id \in AllLinks(g) => GetList(n, "type") # "for_loop"

\* C15: root detection.  The linked ids hold every id that an input of
\* any node links to, the nodes nested in body and orelse lists included,
\* and a top-level node is compiled as a statement root exactly when its
\* id is not among them: in a graph of nodes with distinct ids where no
\* link reads a loop variable, each top-level node of a statement type
\* that compile() has passed without an error is in compiled_statements
\* if and only if no input of any node links to it.
C15_RootDetection ==
    (/\ pc \in {"compile", "done"}
     /\ DistinctIds(graph)
     /\ NoLoopVariableLink(graph))
    => \A n \in 1..ci :
           (TruthyStr(graph.nodes[n], "type") /\ graph.nodes[n].type \in StatementTypes)
           => (graph.nodes[n].id \in compiled_statements
                   <=> graph.nodes[n].id \notin AllLinks(graph))

----------------------------------------------------------------------------
(* C16 *)

RECURSIVE InputLinks(_, _, _)
\* in the input inp made from the expression e, and in the inputs of the
\* expression nodes under it, every name read is a link to the node that
\* prov gives for the name
InputLinks(e, inp, prov) ==
    CASE e.k = "Name" ->
           e.id \in DOMAIN prov /\ "link" \in DOMAIN inp /\ inp.link = prov[e.id]
      [] e.k \in {"BinOp", "Compare", "Call"} ->
           /\ "link" \in DOMAIN inp
           /\ inp.link \in AllIds(graph)
           /\ LET n == NodeOf(inp.link) IN
              /\ Len(n.inputs) = Len(Operands(e))
              /\ \A c \in 1..Len(n.inputs) :
                     InputLinks(Operands(e)[c], n.inputs[c], prov)
      [] OTHER -> TRUE

\* the map prov without an entry for var
Unbound(prov, var) == [n \in DOMAIN prov \ {var} |-> prov[n]]

RECURSIVE LinksOfStmt(_, _, _), LinksOfBody(_, _, _, _)
\* r.prov maps each name to the node that bound it most recently in
\* traversal order before the statement s: an assignment, or the for whose
\* body is being traversed; r.ok tells that every read so far is a link to
\* the node of its name.  The result is the same after s, whose node is
\* `node`.  After a for, the binder of the loop variable is the last
\* assignment to it in the body if there is one, and else what it was
\* before the loop.
LinksOfStmt(s, node, r) ==
    IF ~r.ok THEN r
    ELSE CASE s.k = "Assign" ->
                [prov |-> (s.targets[1].id :> node.id) @@ r.prov,
                 ok |-> /\ node.type = "variable_assign"
                        /\ InputLinks(s.value, node.inputs[1], r.prov)]
           [] s.k = "Expr" ->
                [r EXCEPT !.ok =
                    /\ node.type = "call_function"
                    /\ Len(node.inputs) = Len(s.value.args)
                    /\ \A c \in 1..Len(node.inputs) :
                           InputLinks(s.value.args[c], node.inputs[c], r.prov)]
           [] s.k = "If" ->
                IF node.type # "if_statement" THEN [r EXCEPT !.ok = FALSE]
                ELSE LinksOfBody(s.orelse, node.orelse, 1,
                         LinksOfBody(s.body, node.body, 1,
                             [r EXCEPT !.ok = InputLinks(s.test, node.inputs[1], r.prov)]))
           [] s.k = "For" ->
                IF node.type # "for_loop" THEN [r EXCEPT !.ok = FALSE]
                ELSE [LinksOfBody(s.body, node.body, 1,
                          [prov |-> (s.target.id :> node.id) @@ r.prov,
                           ok |-> InputLinks(s.iter, node.inputs[1], r.prov)])
                      EXCEPT !.prov =
                          IF @[s.target.id] # node.id THEN @
                          ELSE IF s.target.id \in DOMAIN r.prov
                               THEN (s.target.id :> r.prov[s.target.id]) @@ @
                               ELSE Unbound(@, s.target.id)]

LinksOfBody(stmts, nodes, i, r) ==
    IF i > Len(stmts) THEN r
    ELSE IF i > Len(nodes) THEN [r EXCEPT !.ok = FALSE]
    ELSE LinksOfBody(stmts, nodes, i + 1, LinksOfStmt(stmts[i], nodes[i], r))

\* C16: in the graph decompile returns for a program of the supported
\* subset, every name read is a link to the node that most recently bound
\* the name in traversal order (an assignment, or the enclosing for for
\* its loop variable); the reads in the value of `x = <expr>` link to the
\* binder x had before, the reads after it to the new assign node.
C16_MostRecentBinder ==
    (Decompiled /\ AllSupported) =>
        LinksOfBody(source.body, graph.nodes, 1, [prov |-> <<>>, ok |-> TRUE]).ok

----------------------------------------------------------------------------
(* C17 *)

RECURSIVE ProvidersAfter(_, _, _, _)
\* the provider map after the statements stmts[i..], whose nodes are
\* nodes[i..], when it is prov before them: an assignment binds its target
\* to its node, the branches of an if work on the map of the if, and a
\* for leaves its variable with what it had before the loop and every
\* other name with what the body left
ProvidersAfter(stmts, nodes, i, prov) ==
    IF i > Len(stmts) THEN prov
    ELSE LET s == stmts[i]
             node == nodes[i]
         IN  ProvidersAfter(stmts, nodes, i + 1,
               CASE s.k = "Assign" -> (s.targets[1].id :> node.id) @@ prov
                 [] s.k = "If" ->
                      ProvidersAfter(s.orelse, node.orelse, 1,
                          ProvidersAfter(s.body, node.body, 1, prov))
                 [] s.k = "For" ->
                      IF s.target.id \in DOMAIN prov
                      THEN (s.target.id :> prov[s.target.id])
                           @@ ProvidersAfter(s.body, node.body, 1,
                                             (s.target.id :> node.id) @@ prov)
                      ELSE Unbound(ProvidersAfter(s.body, node.body, 1,
                                                  (s.target.id :> node.id) @@ prov),
                                   s.target.id)
                 [] OTHER -> prov)

\* C17: when decompile has processed a for statement of the supported
\* subset, the provider of the loop variable is what it was before the
\* loop (the same node id, or none if there was none), whatever the body
\* assigned and however loops on the variable are nested, and every other
\* name has the provider the body left.
C17_LoopVariableRestored ==
    [][(/\ pc = "visit" /\ pc' = "visit"
        /\ source.body[di + 1].k = "For"
        /\ SupportedStmt(source.body[di + 1]))
       => LET s == source.body[di + 1]
              node == statement_nodes'[Len(statement_nodes')]
              var == s.target.id
          IN  /\ var \in DOMAIN variable_providers =>
                     /\ var \in DOMAIN variable_providers'
                     /\ variable_providers'[var] = variable_providers[var]
              /\ var \notin DOMAIN variable_providers =>
                     var \notin DOMAIN variable_providers'
              /\ \A n \in DOMAIN variable_providers' \ {var} :
                     variable_providers'[n] =
                         ProvidersAfter(s.body, node.body, 1,
                                        (var :> node.id) @@ variable_providers)[n]
              /\ DOMAIN variable_providers' \ {var} =
                     DOMAIN ProvidersAfter(s.body, node.body, 1,
                                (var :> node.id) @@ variable_providers) \ {var}]_vars

\* a loop on x whose body assigns x has been processed, and x has the
\* provider it had before: the assignment in front of the loop
C17_RestoredAfterRebinding ==
    /\ pc = "visit" /\ di = 2
    /\ source.body[1] = Assign(<<X>>, One)
    /\ source.body[2].k = "For" /\ source.body[2].target = X
    /\ \E j \in 1..Len(source.body[2].body) : Binds(source.body[2].body[j], "x")
    /\ variable_providers["x"] = statement_nodes[1].id

----------------------------------------------------------------------------
(* C18 *)

RECURSIVE NoLoopRebinds(_)
\* no for in the statement has a body that binds its loop variable again
NoLoopRebinds(s) ==
    CASE s.k = "If" ->
           /\ \A j \in 1..Len(s.body) : NoLoopRebinds(s.body[j])
           /\ \A j \in 1..Len(s.orelse) : NoLoopRebinds(s.orelse[j])
      [] s.k = "For" ->
           \A j \in 1..Len(s.body) :
               ~Binds(s.body[j], s.target.id) /\ NoLoopRebinds(s.body[j])
      [] OTHER -> TRUE

\* the ids of the nodes in the top-level statement list
StatementIds == {statement_nodes[k].id : k \in 1..Len(statement_nodes)}

\* C18: the body and the orelse of an if are decompiled against the
\* provider map of the enclosing scope.  In the graph of a program of the
\* supported subset (no loop body binding its own variable), every read
\* is a link to the node that bound the name last in traversal order,
\* where an assignment in the body of an if binds the name for the orelse
\* and for every statement after the if; and the statement nodes of the
\* branches are in the body and orelse lists of the if node, one per
\* statement, and not in the top-level statement list.
C18_IfSharesProviders ==
    (/\ Decompiled /\ AllSupported
     /\ \A i \in 1..Len(source.body) : NoLoopRebinds(source.body[i]))
    => /\ LinksOfBody(source.body, graph.nodes, 1, [prov |-> <<>>, ok |-> TRUE]).ok
       /\ Len(statement_nodes) = Len(source.body)
       /\ \A i \in 1..Len(source.body) :
              source.body[i].k = "If" =>
                  /\ statement_nodes[i].type = "if_statement"
                  /\ Len(statement_nodes[i].body) = Len(source.body[i].body)
                  /\ Len(statement_nodes[i].orelse) = Len(source.body[i].orelse)
                  /\ \A n \in AllNodes(statement_nodes[i].body)
                              \cup AllNodes(statement_nodes[i].orelse) :
                         n.id \notin StatementIds

\* x is assigned in the body of an if; the read of x in the orelse and the
\* read after the if are links to that nested assign node
C18_NestedAssignLinked ==
    /\ Decompiled
    /\ Len(source.body) = 3
    /\ source.body[2].k = "If"
    /\ source.body[2].body = <<Assign(<<X>>, Constant("'B'"))>>
    /\ source.body[2].orelse = <<CallPrint(X)>>
    /\ source.body[3] = CallPrint(X)
    /\ graph.nodes[2].orelse[1].inputs[1].link = graph.nodes[2].body[1].id
    /\ graph.nodes[3].inputs[1].link = graph.nodes[2].body[1].id

----------------------------------------------------------------------------
(* C19 *)

\* the operator symbols of the two tables
KnownOperators == DOMAIN BINOP_MAP \cup DOMAIN CMPOP_MAP

\* C19: operator dispatch is total.  When compile returns for a graph of
\* nodes with distinct ids, every top-level binary_op node has a symbol of
\* one of the two tables (any other symbol has made compile fail, whether
\* the node is linked or not), and the expression built for such a node
\* is an arithmetic BinOp for + - * / and a Compare with one operator for
\* == != < <= > >=.
C19_OperatorDispatchTotal ==
    (pc = "done" /\ DistinctIds(graph)) =>
        \A n \in 1..Len(graph.nodes) :
            LET node == graph.nodes[n] IN
            (TruthyStr(node, "type") /\ node.type = "binary_op" /\ "value" \in DOMAIN node)
            => /\ node.value \in KnownOperators
               /\ node.id \in DOMAIN expression_cache =>
                      IF node.value \in DOMAIN BINOP_MAP
                      THEN /\ expression_cache[node.id].k = "BinOp"
                           /\ expression_cache[node.id].op = BINOP_MAP[node.value]
                      ELSE /\ expression_cache[node.id].k = "Compare"
                           /\ expression_cache[node.id].ops = <<CMPOP_MAP[node.value]>>

----------------------------------------------------------------------------
(* C20 *)

\* the program is one call of a function on constants, as a statement
CallOnConstants ==
    /\ Len(source.body) = 1
    /\ source.body[1].k = "Expr"
    /\ SupportedStmt(source.body[1])
    /\ \A i \in 1..Len(source.body[1].value.args) :
           source.body[1].value.args[i].k = "Constant"

\* C20: a call with any number of positional arguments, more than ten
\* included, is recompiled with its arguments in the order of their argN
\* slots by index, which is the order of the program.
C20_ArgumentOrderKept ==
    (pc = "done" /\ source.ok /\ CallOnConstants)
    => /\ Len(tree) = 1
       /\ tree[1].k = "Expr"
       /\ tree[1].value.args = source.body[1].value.args

----------------------------------------------------------------------------
(* C21 *)

RECURSIVE CountStatements(_, _)
\* the number of statements in stmts[i..] that were built from a node, at
\* every depth (a `pass` is built from no node)
CountStatements(stmts, i) ==
    IF i > Len(stmts) THEN 0
    ELSE CountStatements(stmts, i + 1)
         + (CASE stmts[i].k = "Pass" -> 0
              [] stmts[i].k = "If" ->
                   1 + CountStatements(stmts[i].body, 1)
                     + CountStatements(stmts[i].orelse, 1)
              [] stmts[i].k = "For" -> 1 + CountStatements(stmts[i].body, 1)
              [] OTHER -> 1)

\* C21: each node id contributes at most one statement to the program
\* compile emits, also when several nodes of the graph have that id.
\* Every statement built puts the id of its node into compiled_statements,
\* so the program never has more statements than that set has ids.
C21_OneStatementPerId ==
    pc \in {"compile", "done"}
    => CountStatements(tree, 1) <= Cardinality(compiled_statements)

----------------------------------------------------------------------------
(* C22 *)

\* no other node of the graph has the id of the node (the expression
\* cached under a shared id may be that of the other node)
OnlyOneWithId(node) ==
    \A m \in AllNodes(graph.nodes) : ("id" \in DOMAIN m /\ m.id = node.id) => m = node

RECURSIVE BuiltFrom(_, _), InOrderOf(_, _, _, _)
\* stmt is the statement of the node: of its kind and with its name, and
\* with the statements of its body and orelse in the order of the node's
\* lists
BuiltFrom(stmt, node) ==
    /\ TruthyStr(node, "type")
    /\ CASE stmt.k = "Assign" ->
              /\ node.type = "variable_assign"
              /\ stmt.targets = <<Name(node.value)>>
         [] stmt.k = "Expr" ->
              /\ node.type = "call_function"
              /\ OnlyOneWithId(node) =>
                     /\ stmt.value.k = "Call"
                     /\ stmt.value.func = Name(node.func_name)
                     /\ Len(stmt.value.args) = Len(GetList(node, "inputs"))
         [] stmt.k = "If" ->
              /\ node.type = "if_statement"
              /\ \/ stmt.body = <<Pass>>
                 \/ InOrderOf(stmt.body, 1, GetList(node, "body"), 1)
              /\ InOrderOf(stmt.orelse, 1, GetList(node, "orelse"), 1)
         [] stmt.k = "For" ->
              /\ node.type = "for_loop"
              /\ stmt.target = Name(node.target_variable)
              /\ \/ stmt.body = <<Pass>>
                 \/ InOrderOf(stmt.body, 1, GetList(node, "body"), 1)
         [] OTHER -> FALSE

\* the statements stmts[i..] are the statements of nodes picked from
\* nodes[j..] in the order of the list, each node at most once
InOrderOf(stmts, i, nodes, j) ==
    IF i > Len(stmts) THEN TRUE
    ELSE \E k \in j..Len(nodes) :
             /\ BuiltFrom(stmts[i], nodes[k])
             /\ InOrderOf(stmts, i + 1, nodes, k + 1)

\* C22: the program keeps the order of the graph.  A step of compile()'s
\* loop leaves the program as it is or puts one statement at its end, the
\* statement of the node the loop is at, so the top-level statements are
\* in the relative order of their root nodes; the statements in the body
\* of an emitted if or for are in the order of the node's body list; and
\* the expressions built for links on the way add no statement.
C22_OrderKept ==
    [][pc = "compile" =>
          \/ tree' = tree
          \/ /\ Len(tree') = Len(tree) + 1
             /\ SubSeq(tree', 1, Len(tree)) = tree
             /\ BuiltFrom(tree'[Len(tree')], graph.nodes[ci + 1])]_vars

\* a call and a loop with a body of two statements, the second of which
\* links to the first, have been emitted in the order of the graph
C22_TwoStatementBody ==
    /\ pc = "done"
    /\ Len(tree) = 2
    /\ tree[1].k = "Expr"
    /\ tree[2].k = "For"
    /\ Len(tree[2].body) = 2
    /\ tree[2].body[1].k = "Assign"
    /\ tree[2].body[2].k = "Expr"
    /\ Len(graph.nodes[2].body) = 2

----------------------------------------------------------------------------
(* C23 *)

\* the state of a JSONDecompiler object after __init__
FreshDecompiler ==
    [statement_nodes |-> <<>>, expression_nodes |-> <<>>,
     variable_providers |-> <<>>, expression_map |-> <<>>,
     node_count |-> 0, err |-> NoError]

RECURSIVE VisitModule(_, _, _)
\* decompiler.visit(ast_tree): the statements body[i..] visited in order,
\* up to the first that raises
VisitModule(body, i, ds) ==
    IF i > Len(body) \/ ds.err # NoError THEN ds
    ELSE VisitModule(body, i + 1, visit(body[i], <<i>>, ds).st)

\* decompile_python_to_json(python_code) as one call on a decompiler of
\* its own: the graph it returns
decompile_python_to_json(src) ==
    LET ds == VisitModule(src.body, 1, FreshDecompiler) IN
    [nodes |-> ds.statement_nodes \o ds.expression_nodes, connections |-> <<>>]

RECURSIVE CountNodes(_, _)
\* the number of nodes in nodes[i..], the nested ones included
CountNodes(nodes, i) ==
    IF i > Len(nodes) THEN 0
    ELSE 1 + CountNodes(GetList(nodes[i], "body"), 1)
           + CountNodes(GetList(nodes[i], "orelse"), 1)
           + CountNodes(nodes, i + 1)

\* every node of g has a non-empty id and no two nodes share one
UniqueIds(g) ==
    /\ \A n \in AllNodes(g.nodes) : "id" \in DOMAIN n /\ n.id # ""
    /\ Cardinality(AllIds(g)) = CountNodes(g.nodes, 1)

----------------------------------------------------------------------------
(* C24 *)

\* C24: every graph that decompile returns satisfies the link invariant:
\* each link of each node, top-level or nested, holds the id of a node of
\* the same graph, and no link is null; also for a source with an
\* expression the decompiler has no node kind for.
C24_LinksResolve ==
    (Decompiled /\ pc = "graph") =>
        \A n \in AllNodes(graph.nodes) :
            \A l \in LinksOf(n) : l # NoneId /\ l \in AllIds(graph)

----------------------------------------------------------------------------
(* C25 *)

\* C25: compile ends on every graph with source text or a descriptive
\* error, also when the links form a cycle among expression nodes: the
\* construction of an expression never recurses until the interpreter's
\* recursion limit stops it.
C25_BoundedRecursion ==
    pc = "failed" => cerr.type # "RecursionError"

====
